---- MODULE Spec2Model ----
(***************************************************************************)
(* Verification model of FunctionDependencyAnalyzer: the scope forest and  *)
(* its lookup rules (pda.models.scope), the dependency graphs              *)
(* (pydepgraph.graph, pydepgraph.importer, fda.importer), the cycle        *)
(* detector and the module resolver (pda.analyzer.imports).                *)
(*                                                                         *)
(* Each subsystem has its own specification over the shared variables; the *)
(* variables of the other subsystems stay at their idle values.            *)
(***************************************************************************)
EXTENDS Naturals, Integers, Sequences, FiniteSets, TLC

VARIABLES
    scopes,     \* pda.models.scope: the ScopeNode objects constructed so far
    bg,         \* pydepgraph.graph.base: one BaseGraph and its networkx graph
    project,    \* pydepgraph.importer: the files the registry reads
    reg,        \* pydepgraph.importer.registry: one ModuleRegistry
    dg,         \* fda.importer: the ModuleDependencyGraph of a ModuleRegistry
    run,        \* fda.importer.graph: the running find_cycles / topological_sort
    cd,         \* pda.analyzer.imports.cycle: one CycleDetector and its last call
    rs,         \* pda.analyzer.imports.resolver: the last resolve_to_module call
    forest,     \* pda.models.python.forest: the ASTForest of the files read so far
    sc,         \* pda.analyzer.scope.collector: one SymbolCollector and its last call
    sb,         \* pda.analyzer.scope.builder: one ScopeBuilder and its last call
    sa,         \* pda.analyzer.scope.analyzer: one ScopeAnalyzer
    mg,         \* pda.analyzer.imports.special.main: one if statement and the last call of is_main_guard_only
    ic,         \* pda.analyzer.imports.parser: the last import the classifier was given
    ac,         \* pda.analyzer.scope.analyzer: one ScopeAnalyzer across its calls
    tr,         \* fda.importer.registry: one ModuleRegistry and a run of traverse_dependencies
    im,         \* fda.importer.resolver: the syntax tree of one module and its ImportCollector
    pa          \* fda.importer.analyzer: one project and one ModuleAnalyzer

vars == <<scopes, bg, project, reg, dg, run, cd, rs, forest, sc, sb, sa, mg, ic, ac, tr, im, pa>>

\* The variables of the other subsystems, for each subsystem.
notScope == <<bg, project, reg, dg, run, cd, rs, forest, sc, sb, sa, mg, ic, ac, tr, im, pa>>
notBaseGraph == <<scopes, project, reg, dg, run, cd, rs, forest, sc, sb, sa, mg, ic, ac, tr, im, pa>>
notRegistry == <<scopes, bg, dg, run, cd, rs, forest, sc, sb, sa, mg, ic, ac, tr, im, pa>>
notDepGraph == <<scopes, bg, project, reg, cd, rs, forest, sc, sb, sa, mg, ic, ac, tr, im, pa>>
notCycle == <<scopes, bg, project, reg, dg, run, rs, forest, sc, sb, sa, mg, ic, ac, tr, im, pa>>
notResolver == <<scopes, bg, project, reg, dg, run, cd, forest, sc, sb, sa, mg, ic, ac, tr, im, pa>>
notClassifier == <<scopes, bg, project, reg, dg, run, cd, rs, forest, sc, sb, sa, mg, ac, tr, im, pa>>
notTraverse == <<scopes, bg, project, reg, dg, run, cd, rs, forest, sc, sb, sa, mg, ic, ac, im, pa>>
notImports == <<scopes, bg, project, reg, dg, run, cd, rs, forest, sc, sb, sa, mg, ic, ac, tr, pa>>
notProject == <<scopes, bg, project, reg, dg, run, cd, rs, forest, sc, sb, sa, mg, ic, ac, tr, im>>
notAnalyzerCalls == <<scopes, bg, project, reg, dg, run, cd, rs, forest, sc, sb, sa, mg, ic, tr, im, pa>>
notMainGuard == <<scopes, bg, project, reg, dg, run, cd, rs, forest, sc, sb, sa, ic, ac, tr, im, pa>>
notAnalyzer == <<scopes, bg, project, reg, dg, run, cd, rs, sc, sb, mg, ic, ac, tr, im, pa>>
notBuilder == <<scopes, bg, project, reg, dg, run, cd, rs, sc, sa, mg, ic, ac, tr, im, pa>>
notCollector == <<scopes, bg, project, reg, dg, run, cd, rs, sb, sa, mg, ic, ac, tr, im, pa>>

\* Python's None where a Symbol is expected.
None == [owner |-> 0, table |-> "none", name |-> ""]

----------------------------------------------------------------------------
(***************************************************************************)
(* Scope forest: ScopeNode and its three lookups.                          *)
(***************************************************************************)

\* Largest number of ScopeNode objects constructed.
MaxScopes == 3

\* Names that may be bound.
Names == {"x"}

MODULE_T == "module"
CLASS_T == "class"
FUNCTION_T == "function"
LAMBDA_T == "lambda"
COMPREHENSION_T == "comprehension"

ScopeType == {MODULE_T, CLASS_T, FUNCTION_T, LAMBDA_T, COMPREHENSION_T}

\* A Symbol object; every binding creates its own object, told apart here by
\* the scope whose table holds it, the table, and the name.
Symbol(owner, table, name) == [owner |-> owner, table |-> table, name |-> name]

\* A table of scope `owner` binding the names `keys`.
Table(owner, table, keys) == [n \in keys |-> Symbol(owner, table, n)]

ScopeIds == 1..Len(scopes)

\* ScopeNode.__init__: the new scope gets the next identity; parent 0 is None.
ScopeNode(scope_type, parent, symbolKeys, importKeys) ==
    [scope_type |-> scope_type,
     parent     |-> parent,
     symbols    |-> Table(Len(scopes) + 1, "symbols", symbolKeys),
     imports    |-> Table(Len(scopes) + 1, "imports", importKeys)]

\* lookup_local falling back to the parent's tables.
lookup_local_via_parent(s, name) ==
    IF name \in DOMAIN scopes[s].symbols THEN scopes[s].symbols[name]
    ELSE IF name \in DOMAIN scopes[s].imports THEN scopes[s].imports[name]
    ELSE IF scopes[s].parent # 0
              /\ name \in DOMAIN scopes[scopes[s].parent].symbols
         THEN scopes[scopes[s].parent].symbols[name]
         ELSE None

lookup_local(s, name) ==
    IF name \in DOMAIN scopes[s].symbols THEN scopes[s].symbols[name]
    ELSE IF name \in DOMAIN scopes[s].imports THEN scopes[s].imports[name]
    ELSE None

\* lookup without the FUNCTION-inside-CLASS special case.
RECURSIVE lookup_no_class_skip(_, _)
lookup_no_class_skip(s, name) ==
    LET symbol == lookup_local(s, name)
        parent_scope == scopes[s].parent
    IN  IF symbol # None THEN symbol
        ELSE IF parent_scope # 0 THEN lookup_no_class_skip(parent_scope, name)
        ELSE None

RECURSIVE lookup(_, _)
lookup(s, name) ==
    LET symbol == lookup_local(s, name)
        parent_scope == scopes[s].parent
    IN  IF symbol # None THEN symbol
        ELSE IF parent_scope # 0
             THEN IF scopes[s].scope_type = FUNCTION_T
                     /\ scopes[parent_scope].scope_type = CLASS_T
                  THEN LET grandparent_scope == scopes[parent_scope].parent
                       IN  IF grandparent_scope # 0
                           THEN lookup(grandparent_scope, name)
                           ELSE None
                  ELSE lookup(parent_scope, name)
             ELSE None

\* The loop of lookup_nonlocal skipping MODULE scopes only.
RECURSIVE nonlocal_walk_class_seen(_, _)
nonlocal_walk_class_seen(current, name) ==
    IF current = 0 THEN None
    ELSE IF scopes[current].scope_type = MODULE_T
         THEN nonlocal_walk_class_seen(scopes[current].parent, name)
         ELSE LET symbol == lookup_local(current, name)
              IN  IF symbol # None THEN symbol
                  ELSE nonlocal_walk_class_seen(scopes[current].parent, name)

\* The while loop of lookup_nonlocal, `current` being the loop variable.
RECURSIVE nonlocal_walk(_, _)
nonlocal_walk(current, name) ==
    IF current = 0 THEN None
    ELSE IF scopes[current].scope_type \in {MODULE_T, CLASS_T}
         THEN nonlocal_walk(scopes[current].parent, name)
         ELSE LET symbol == lookup_local(current, name)
              IN  IF symbol # None THEN symbol
                  ELSE nonlocal_walk(scopes[current].parent, name)

lookup_nonlocal(s, name) == nonlocal_walk(scopes[s].parent, name)

ScopeInit == scopes = <<>>

\* Construction of one ScopeNode, with or without a parent among the scopes
\* that exist, and with the tables handed to the constructor.
NewScope ==
    /\ Len(scopes) < MaxScopes
    /\ \E scope_type \in ScopeType, parent \in {0} \cup ScopeIds,
          symbolKeys \in SUBSET Names, importKeys \in SUBSET Names :
            scopes' = Append(scopes, ScopeNode(scope_type, parent, symbolKeys, importKeys))
    /\ UNCHANGED notScope

ScopeNext == NewScope

ScopeIdle == scopes = <<>>

\* Keys of the two tables of a scope.
SymbolKeys(s) == DOMAIN scopes[s].symbols
ImportKeys(s) == DOMAIN scopes[s].imports
BindsLocally(s, n) == n \in SymbolKeys(s) \cup ImportKeys(s)

\* Strict ancestors of a scope and its distance from its root.
RECURSIVE Ancestors(_)
Ancestors(s) ==
    IF scopes[s].parent = 0 THEN {}
    ELSE {scopes[s].parent} \cup Ancestors(scopes[s].parent)

Depth(s) == Cardinality(Ancestors(s))

\* C1: lookup_local(n) on a scope S returns a Symbol iff n is a key of
\* S.symbols or S.imports, the one of S.symbols when both bind n, and the
\* result is always an object of S's own tables, whatever the ancestors bind.
C1_LookupLocalOwnTables ==
    \A s \in ScopeIds, n \in Names :
        /\ (lookup_local(s, n) # None) <=> BindsLocally(s, n)
        /\ n \in SymbolKeys(s) => lookup_local(s, n) = Symbol(s, "symbols", n)
        /\ (n \notin SymbolKeys(s) /\ n \in ImportKeys(s))
              => lookup_local(s, n) = Symbol(s, "imports", n)

\* A scope that binds nothing under a parent that binds n locally gets None,
\* and a scope binding n in both tables gets the one of symbols.
C1_Witness ==
    \E s \in ScopeIds, t \in ScopeIds, n \in Names :
        /\ scopes[s].parent # 0
        /\ ~BindsLocally(s, n)
        /\ n \in SymbolKeys(scopes[s].parent)
        /\ lookup_local(s, n) = None
        /\ n \in SymbolKeys(t) \cap ImportKeys(t)
        /\ lookup_local(t, n).table = "symbols"

\* Function scopes whose immediate parent is a Class scope.
IsMethod(f) ==
    /\ scopes[f].scope_type = FUNCTION_T
    /\ scopes[f].parent # 0
    /\ scopes[scopes[f].parent].scope_type = CLASS_T

\* C2: for a Function scope F directly inside a Class scope C, F.lookup(n)
\* is never a Symbol of C's tables; when n is not local to F the result is
\* that of the lookup at C's parent, and None when C has no parent.
C2_MethodSkipsClass ==
    \A f \in ScopeIds, n \in Names :
        IsMethod(f) =>
            LET c == scopes[f].parent
                g == scopes[c].parent
            IN  /\ lookup(f, n).owner # c
                /\ ~BindsLocally(f, n) =>
                      lookup(f, n) = IF g = 0 THEN None ELSE lookup(g, n)

\* A method whose class and whose grandparent both bind n: the lookup finds
\* the grandparent's Symbol.
C2_Witness ==
    \E f \in ScopeIds, n \in Names :
        /\ IsMethod(f)
        /\ ~BindsLocally(f, n)
        /\ n \in SymbolKeys(scopes[f].parent)
        /\ scopes[scopes[f].parent].parent # 0
        /\ lookup(f, n) = Symbol(scopes[scopes[f].parent].parent, "symbols", n)

\* Enclosing Function, Lambda or Comprehension scopes of s binding n locally.
NonlocalCandidates(s, n) ==
    {a \in Ancestors(s) :
        /\ scopes[a].scope_type \in {FUNCTION_T, LAMBDA_T, COMPREHENSION_T}
        /\ BindsLocally(a, n)}

Nearest(A) == CHOOSE a \in A : \A b \in A : Depth(b) <= Depth(a)

\* C3: lookup_nonlocal(n) on S returns the local binding of n in the nearest
\* strict ancestor of S that is a Function, Lambda or Comprehension scope
\* binding n, None when there is none; never a Symbol of S itself or of a
\* Module or Class scope.
C3_NonlocalSkipsModuleAndClass ==
    \A s \in ScopeIds, n \in Names :
        LET A == NonlocalCandidates(s, n)
            r == lookup_nonlocal(s, n)
        IN  /\ r = IF A = {} THEN None ELSE lookup_local(Nearest(A), n)
            /\ r.owner # s
            /\ r # None => scopes[r.owner].scope_type \notin {MODULE_T, CLASS_T}

\* S binds n itself, sits in a Class that binds n, inside a Function that
\* binds n: the Function's Symbol is returned.
C3_Witness ==
    \E s \in ScopeIds, n \in Names :
        /\ BindsLocally(s, n)
        /\ scopes[s].parent # 0
        /\ scopes[scopes[s].parent].scope_type = CLASS_T
        /\ BindsLocally(scopes[s].parent, n)
        /\ scopes[scopes[s].parent].parent # 0
        /\ scopes[scopes[scopes[s].parent].parent].scope_type = FUNCTION_T
        /\ lookup_nonlocal(s, n) = Symbol(scopes[scopes[s].parent].parent, "symbols", n)

----------------------------------------------------------------------------
(***************************************************************************)
(* pydepgraph.graph.base.BaseGraph over a networkx graph.                  *)
(***************************************************************************)

\* Number of distinct node objects offered to the graph.
MaxGraphNodes == 3

GraphNodes == 1..MaxGraphNodes

\* graph_type of the subclass: the default nx.DiGraph keeps one edge per
\* ordered pair, a multigraph type keeps every edge it is given.
GraphTypes == {"DiGraph", "MultiDiGraph"}

\* The empty self._graph: a set of nodes and the number of edges per pair.
EmptyGraph(graph_type) ==
    [graph_type |-> graph_type,
     nodes      |-> {},
     edges      |-> [e \in {} |-> 0]]

\* Number of edges of self._graph from u to v.
number_of_edges(g, u, v) ==
    IF <<u, v>> \in DOMAIN g.edges THEN g.edges[<<u, v>>] ELSE 0

has_node(g, module) == module \in g.nodes

has_edge(g, from_module, to_module) == number_of_edges(g, from_module, to_module) > 0

\* networkx add_node and add_edge on self._graph.
nx_add_node(g, n) == [g EXCEPT !.nodes = @ \cup {n}]

nx_add_edge(g, u, v) ==
    [g EXCEPT !.nodes = @ \cup {u, v},
              !.edges = [e \in DOMAIN g.edges \cup {<<u, v>>} |->
                            IF e # <<u, v>> THEN g.edges[e]
                            ELSE IF g.graph_type = "DiGraph" THEN 1
                            ELSE number_of_edges(g, u, v) + 1]]

add_node(g, module) ==
    IF ~has_node(g, module) THEN nx_add_node(g, module) ELSE g

\* add_edge without its guard.
add_edge_unguarded(g, from_module, to_module) ==
    nx_add_edge(add_node(add_node(g, from_module), to_module), from_module, to_module)

add_edge(g, from_module, to_module) ==
    IF from_module # to_module /\ ~has_edge(g, from_module, to_module)
    THEN nx_add_edge(add_node(add_node(g, from_module), to_module), from_module, to_module)
    ELSE g

BGIdle == bg = EmptyGraph("DiGraph")

BGInit == \E graph_type \in GraphTypes : bg = EmptyGraph(graph_type)

BGAddNode(module) ==
    /\ bg' = add_node(bg, module)
    /\ UNCHANGED notBaseGraph

BGAddEdge(from_module, to_module) ==
    /\ bg' = add_edge(bg, from_module, to_module)
    /\ UNCHANGED notBaseGraph

BGNext ==
    \/ \E module \in GraphNodes : BGAddNode(module)
    \/ \E from_module \in GraphNodes, to_module \in GraphNodes :
          BGAddEdge(from_module, to_module)

----------------------------------------------------------------------------
(***************************************************************************)
(* pydepgraph.importer.registry.ModuleRegistry building its ImportGraph.   *)
(***************************************************************************)

\* Largest number of import statements in one file.
MaxStatements == 2

\* Module names of the project; the file given to the registry is RootName.
ModuleNames == GraphNodes
RootName == 1

Range(f) == {f[i] : i \in DOMAIN f}

SeqsUpTo(S, n) == UNION {[1..k -> S] : k \in 0..n}

\* A file: whether _check_if_should_scan accepts its module, and the
\* modules its import statements resolve to, one per statement, in order
\* (statements that _resolve drops are left out; a module that is not
\* scanned is never read).
Files ==
    {f \in [scan : BOOLEAN, stmts : SeqsUpTo(ModuleNames, MaxStatements)] :
        ~f.scan => f.stmts = <<>>}

\* A Module object made by Module.from_spec while the file of module `via`
\* is analysed (0: made by _create_root); objects made for the same name
\* from different files need not be equal.
ModuleObject(name, via) == [name |-> name, via |-> via]

\* module.origin: every module name has its own file.
origin(module) == module.name

check_if_should_scan(module) == project[module.name].scan

\* _collect_import_paths: the paths of all statements, each path once, in
\* order of first occurrence.
RECURSIVE collect_import_paths(_)
collect_import_paths(stmts) ==
    IF stmts = <<>> THEN <<>>
    ELSE LET rest == collect_import_paths(SubSeq(stmts, 1, Len(stmts) - 1))
             last == stmts[Len(stmts)]
         IN  IF last \in Range(rest) THEN rest ELSE Append(rest, last)

\* analyze_module: the items of the dict name -> Module, in insertion order.
analyze_module(module) ==
    IF ~check_if_should_scan(module) THEN <<>>
    ELSE LET paths == collect_import_paths(project[module.name].stmts)
         IN  [i \in 1..Len(paths) |-> ModuleObject(paths[i], module.name)]

\* The imported object itself instead of the registered one.
target_module_unregistered(modules, imported_module) == imported_module

\* target_module = self.modules[imported_module_name]
target_module(modules, imported_module) == modules[imported_module.name]

\* The for loop of _collect_new_modules over the remaining items.
RECURSIVE collect_items(_, _, _)
collect_items(r, module, items) ==
    IF items = <<>> THEN r
    ELSE LET imported_module == Head(items)
             modules == IF imported_module.name \in DOMAIN r.modules
                        THEN r.modules
                        ELSE r.modules @@ (imported_module.name :> imported_module)
             target == target_module(modules, imported_module)
         IN  collect_items([r EXCEPT !.modules = modules,
                                     !.graph = add_edge(@, module, target),
                                     !.new_modules = @ \cup {target}],
                           module, Tail(items))

collect_new_modules(r, module) ==
    collect_items([r EXCEPT !.processed = @ \cup {origin(module)}],
                  module, analyze_module(module))

\* ModuleRegistry.__init__; processed and new_modules are the locals of
\* _create_graph, 0 in processed is None.
NewRegistry(graph_type) ==
    [created     |-> FALSE,
     modules     |-> [n \in {} |-> 0],
     graph       |-> EmptyGraph(graph_type),
     new_modules |-> {},
     processed   |-> {}]

RegIdle == project = <<>> /\ reg = NewRegistry("DiGraph")

RegInit ==
    /\ project \in [ModuleNames -> Files]
    /\ \E graph_type \in GraphTypes : reg = NewRegistry(graph_type)

\* _create_graph up to its loop.
CreateGraph ==
    /\ ~reg.created
    /\ LET root == ModuleObject(RootName, 0)
       IN  reg' = [reg EXCEPT !.created = TRUE,
                              !.graph = add_node(@, root),
                              !.processed = {0},
                              !.modules = (RootName :> root),
                              !.new_modules = {root}]
    /\ UNCHANGED <<project, notRegistry>>

\* One iteration of the while loop of _create_graph; set.pop() takes any
\* element.
CreateGraphLoop ==
    /\ reg.created
    /\ \E module \in reg.new_modules :
          LET r == [reg EXCEPT !.new_modules = @ \ {module}]
          IN  reg' = IF origin(module) \in r.processed
                     THEN r
                     ELSE collect_new_modules(r, module)
    /\ UNCHANGED <<project, notRegistry>>

RegNext == CreateGraph \/ CreateGraphLoop

RegDone == reg.created /\ reg.new_modules = {}

----------------------------------------------------------------------------
(***************************************************************************)
(* fda.importer: ModuleRegistry.register_module and the algorithms of      *)
(* ModuleDependencyGraph.  Iteration over a Python set takes the elements  *)
(* in an order the program does not control.                               *)
(***************************************************************************)

\* Number of module names (fqn); modules are named in order of registration.
MaxFqns == 3

\* Largest number of distinct modules one module imports.
MaxImports == 2

Fqns == 1..MaxFqns

ImportSets == {T \in SUBSET Fqns : Cardinality(T) <= MaxImports}

\* ModuleDependencyGraph.__init__: nodes in dict order, edges per module.
EmptyDependencyGraph == [nodes |-> <<>>, edges |-> [f \in Fqns |-> {}]]

\* self.edges.get(node, set())
get_dependencies(g, module_fqn) == g.edges[module_fqn]

\* register_module: add_node, then add_dependency for every import.
register_module(g, fqn, targets) ==
    [g EXCEPT !.nodes = Append(@, fqn),
              !.edges[fqn] = @ \cup targets]

\* path.index(x)
index(path, x) == CHOOSE i \in 1..Len(path) : path[i] = x /\ \A j \in 1..(i - 1) : path[j] # x

\* The whole path reported instead of the slice.
reported_cycle_whole_path(path, neighbor) == path \o <<neighbor>>

\* path[cycle_start:] + [neighbor]
reported_cycle(path, neighbor) ==
    SubSeq(path, index(path, neighbor), Len(path)) \o <<neighbor>>

\* No algorithm running.
NoRun ==
    [op |-> "none", done |-> FALSE,
     visited |-> {}, rec_stack |-> {}, path |-> <<>>, cycles |-> <<>>,
     stack |-> <<>>, outer |-> 1,
     in_degree |-> <<>>, queue |-> <<>>, sorted_nodes |-> <<>>]

\* Entry of dfs(node): the frame keeps the neighbours still to iterate.
dfs_enter(r, node) ==
    [r EXCEPT !.visited = @ \cup {node},
              !.rec_stack = @ \cup {node},
              !.path = Append(@, node),
              !.stack = Append(@, [node |-> node, todo |-> get_dependencies(dg, node)])]

\* One neighbour of the loop in dfs; `return True` unwinds every frame, as
\* each caller returns True at once, without popping path or rec_stack.
dfs_neighbor(r, neighbor) ==
    LET top == r.stack[Len(r.stack)]
        r1 == [r EXCEPT !.stack[Len(r.stack)].todo = @ \ {neighbor}]
    IN  IF neighbor \notin r.visited THEN dfs_enter(r1, neighbor)
        ELSE IF neighbor \in r.rec_stack
             THEN [r1 EXCEPT !.cycles = Append(@, reported_cycle(r.path, neighbor)),
                             !.stack = <<>>]
             ELSE r1

\* End of the loop in dfs: path.pop(), rec_stack.remove(node), return False.
dfs_leave(r) ==
    [r EXCEPT !.path = SubSeq(@, 1, Len(@) - 1),
              !.rec_stack = @ \ {r.stack[Len(r.stack)].node},
              !.stack = SubSeq(@, 1, Len(@) - 1)]

DGIdle == dg = EmptyDependencyGraph /\ run = NoRun

DGInit == dg = EmptyDependencyGraph /\ run = NoRun

\* ModuleRegistry.register_module of the next module.
RegisterModule ==
    /\ run.op = "none"
    /\ Len(dg.nodes) < MaxFqns
    /\ \E targets \in ImportSets : dg' = register_module(dg, Len(dg.nodes) + 1, targets)
    /\ UNCHANGED <<run, notDepGraph>>

\* find_cycles: its local variables.
FindCyclesStart ==
    /\ run.op = "none"
    /\ run' = [NoRun EXCEPT !.op = "find_cycles"]
    /\ UNCHANGED <<dg, notDepGraph>>

\* for node in self.nodes: if node not in visited: dfs(node)
FindCyclesOuter ==
    /\ run.op = "find_cycles" /\ ~run.done
    /\ run.stack = <<>>
    /\ run.outer <= Len(dg.nodes)
    /\ LET node == dg.nodes[run.outer]
           r == [run EXCEPT !.outer = @ + 1]
       IN  run' = IF node \notin run.visited THEN dfs_enter(r, node) ELSE r
    /\ UNCHANGED <<dg, notDepGraph>>

FindCyclesDfs ==
    /\ run.op = "find_cycles" /\ ~run.done
    /\ run.stack # <<>>
    /\ LET top == run.stack[Len(run.stack)]
       IN  IF top.todo = {}
           THEN run' = dfs_leave(run)
           ELSE \E neighbor \in top.todo : run' = dfs_neighbor(run, neighbor)
    /\ UNCHANGED <<dg, notDepGraph>>

\* return cycles
FindCyclesReturn ==
    /\ run.op = "find_cycles" /\ ~run.done
    /\ run.stack = <<>>
    /\ run.outer > Len(dg.nodes)
    /\ run' = [run EXCEPT !.done = TRUE]
    /\ UNCHANGED <<dg, notDepGraph>>

\* in_degree of topological_sort left at its initial zeros.
initial_in_degree_uncounted(g) == [n \in Range(g.nodes) |-> 0]

\* in_degree after the first loop of topological_sort.
initial_in_degree(g) ==
    [n \in Range(g.nodes) |->
        Cardinality({m \in Range(g.nodes) : n \in get_dependencies(g, m)})]

\* deque([node for node, degree in in_degree.items() if degree == 0])
initial_queue(g, in_degree) ==
    LET zero(n) == in_degree[n] = 0
    IN  SelectSeq(g.nodes, zero)

\* The inner for loop of topological_sort over the neighbours in `order`.
RECURSIVE relax(_, _)
relax(r, order) ==
    IF order = <<>> THEN r
    ELSE LET neighbor == Head(order)
         IN  IF neighbor \in DOMAIN r.in_degree
             THEN LET degree == r.in_degree[neighbor] - 1
                  IN  relax([r EXCEPT !.in_degree[neighbor] = degree,
                                      !.queue = IF degree = 0 THEN Append(@, neighbor) ELSE @],
                            Tail(order))
             ELSE relax(r, Tail(order))

\* The orders in which a set can be iterated.
Orders(S) ==
    {o \in [1..Cardinality(S) -> S] : \A i, j \in 1..Cardinality(S) : o[i] = o[j] => i = j}

TopologicalSortStart ==
    /\ run.op = "none"
    /\ LET in_degree == initial_in_degree(dg)
       IN  run' = [NoRun EXCEPT !.op = "topological_sort",
                                !.in_degree = in_degree,
                                !.queue = initial_queue(dg, in_degree)]
    /\ UNCHANGED <<dg, notDepGraph>>

\* One iteration of `while queue`.
TopologicalSortLoop ==
    /\ run.op = "topological_sort" /\ ~run.done
    /\ run.queue # <<>>
    /\ LET node == Head(run.queue)
           r == [run EXCEPT !.queue = Tail(@), !.sorted_nodes = Append(@, node)]
       IN  \E order \in Orders(get_dependencies(dg, node)) : run' = relax(r, order)
    /\ UNCHANGED <<dg, notDepGraph>>

\* return sorted_nodes
TopologicalSortReturn ==
    /\ run.op = "topological_sort" /\ ~run.done
    /\ run.queue = <<>>
    /\ run' = [run EXCEPT !.done = TRUE]
    /\ UNCHANGED <<dg, notDepGraph>>

DGNext ==
    \/ RegisterModule
    \/ FindCyclesStart
    \/ FindCyclesOuter
    \/ FindCyclesDfs
    \/ FindCyclesReturn
    \/ TopologicalSortStart
    \/ TopologicalSortLoop
    \/ TopologicalSortReturn

----------------------------------------------------------------------------
(***************************************************************************)
(* pda.analyzer.imports.cycle.CycleDetector, configured by                 *)
(* ModuleImportsAnalyzerConfig.  The detector is described by its tests    *)
(* (tests/pda/analyzer/imports/test_cycle.py).                             *)
(***************************************************************************)

\* Number of file origins and longest current_path handed to check_cycle.
MaxOrigins == 3
MaxPathLen == 2

\* Origins of files; 0 is None.
Origins == 1..MaxOrigins
NoOrigin == 0

\* current_path is the stack of files under analysis: no file twice.
Paths ==
    {path \in SeqsUpTo(Origins, MaxPathLen) :
        \A i, j \in 1..Len(path) : path[i] = path[j] => i = j}

\* ignore_cycles switched on by default.
DefaultIgnoreCyclesOn == TRUE

\* ModuleImportsAnalyzerConfig.ignore_cycles: Field(default=False)
DefaultIgnoreCycles == FALSE

NoCall ==
    [op |-> "none", current_path |-> <<>>, next_origin |-> NoOrigin,
     outcome |-> "none", logged |-> FALSE]

\* CycleDetector(config)
NewDetector(config, ignore_cycles) ==
    [config         |-> config,
     ignore_cycles  |-> ignore_cycles,
     cycle_detected |-> FALSE,
     cycle_path     |-> <<>>,
     last           |-> NoCall]

\* check_cycle storing only the slice of the path that forms the cycle.
check_cycle_slice(d, current_path, next_origin, recorded) ==
    LET call == [op |-> "check_cycle", current_path |-> current_path,
                 next_origin |-> next_origin, outcome |-> "False", logged |-> FALSE]
    IN  IF next_origin = NoOrigin \/ next_origin \notin Range(current_path)
        THEN [d EXCEPT !.last = call]
        ELSE IF ~d.ignore_cycles
        THEN [d EXCEPT !.last = [call EXCEPT !.outcome = "PDADependencyCycleError"]]
        ELSE [d EXCEPT !.cycle_detected = TRUE,
                       !.cycle_path = reported_cycle(current_path, next_origin),
                       !.last = [call EXCEPT !.outcome = "True", !.logged = TRUE]]

\* check_cycle(current_path, next_origin); `recorded` tells whether the
\* cycle is stored before PDADependencyCycleError is raised.
check_cycle(d, current_path, next_origin, recorded) ==
    LET call == [op |-> "check_cycle", current_path |-> current_path,
                 next_origin |-> next_origin, outcome |-> "False", logged |-> FALSE]
        detected == [d EXCEPT !.cycle_detected = TRUE,
                              !.cycle_path = current_path \o <<next_origin>>]
    IN  IF next_origin = NoOrigin \/ next_origin \notin Range(current_path)
        THEN [d EXCEPT !.last = call]
        ELSE IF ~d.ignore_cycles
        THEN [(IF recorded THEN detected ELSE d) EXCEPT
                 !.last = [call EXCEPT !.outcome = "PDADependencyCycleError"]]
        ELSE [detected EXCEPT !.last = [call EXCEPT !.outcome = "True", !.logged = TRUE]]

\* reset()
reset(d) ==
    [d EXCEPT !.cycle_detected = FALSE, !.cycle_path = <<>>,
              !.last = [NoCall EXCEPT !.op = "reset"]]

CDIdle == cd = NewDetector("default", DefaultIgnoreCycles)

\* ModuleImportsAnalyzerConfig() or ModuleImportsAnalyzerConfig(ignore_cycles=...)
CDInit ==
    \/ cd = NewDetector("default", DefaultIgnoreCycles)
    \/ \E ignore_cycles \in BOOLEAN : cd = NewDetector("explicit", ignore_cycles)

CheckCycle ==
    /\ \E current_path \in Paths, next_origin \in Origins \cup {NoOrigin},
          recorded \in BOOLEAN :
            cd' = check_cycle(cd, current_path, next_origin, recorded)
    /\ UNCHANGED notCycle

Reset ==
    /\ cd' = reset(cd)
    /\ UNCHANGED notCycle

CDNext == CheckCycle \/ Reset

----------------------------------------------------------------------------
(***************************************************************************)
(* pda.analyzer.imports.resolver.ModuleResolver.resolve_to_module, as its  *)
(* tests describe it, returning the UnavailableModule of                   *)
(* pda.specification.modules.module.unavailable.                           *)
(***************************************************************************)

\* Module names asked for, and package names; NoPackage is None.
AttemptedNames == {"pathlib", "typing", "test.module", "nonexistent_module_xyz123"}
NoPackage == "None"
PackageNames == {NoPackage, "test_package", "pathlib", "typing"}

\* ModuleCategory
CATEGORY_LOCAL == "local"
CATEGORY_STDLIB == "stdlib"
CATEGORY_EXTERNAL == "external"
CATEGORY_UNAVAILABLE == "unavailable"

\* What CategorizedModule.from_spec does with a spec: a category, or one of
\* the errors of a malformed spec.
CaughtErrors == {"AttributeError", "KeyError", "IndexError", "PDAImportPathError"}
FromSpecOutcomes == {CATEGORY_LOCAL, CATEGORY_STDLIB, CATEGORY_EXTERNAL} \cup CaughtErrors

\* An object of a module class, or the error its constructor raised.
ModuleValue(type, name, package, raised) ==
    [type |-> type, name |-> name, package |-> package, raised |-> raised]

\* UnavailableModule whose validator rejects a missing package.
UnavailableModule_package_required(name, package) ==
    IF name = ""
    THEN ModuleValue("none", name, package, "PDAMissingModuleNameError")
    ELSE IF package = NoPackage \/ package = ""
    THEN ModuleValue("none", name, package, "PDAMissingModuleNameError")
    ELSE ModuleValue("UnavailableModule", name, package, "")

\* UnavailableModule(name=..., package=...) with its validator.
UnavailableModule(name, package) ==
    IF name = ""
    THEN ModuleValue("none", name, package, "PDAMissingModuleNameError")
    ELSE IF package # NoPackage /\ package = ""
    THEN ModuleValue("none", name, package, "PDAMissingModuleNameError")
    ELSE ModuleValue("UnavailableModule", name, package, "")

\* UnavailableModule.get_category
unavailable_get_category(module) == CATEGORY_UNAVAILABLE

\* The CategorizedModule returned, or the error raised.
Resolution(module, category) ==
    [raised   |-> module.raised,
     category |-> IF module.raised = "" THEN category ELSE "none",
     module   |-> module]

\* resolve_to_module(source, import_path): `spec_found` is whether
\* source.get_spec returns a spec, `package` the name of the package spec.
resolve_to_module(name, package, spec_found, from_spec) ==
    IF ~spec_found \/ from_spec \in CaughtErrors
    THEN LET module == UnavailableModule(name, package)
         IN  Resolution(module, unavailable_get_category(module))
    ELSE Resolution(ModuleValue("Module", name, package, ""), from_spec)

NoResolution ==
    [called |-> FALSE, name |-> "", package |-> NoPackage, spec_found |-> FALSE,
     from_spec |-> "none", result |-> Resolution(ModuleValue("none", "", NoPackage, ""), "none")]

RSIdle == rs = NoResolution

RSInit == rs = NoResolution

ResolveToModule ==
    /\ \E name \in AttemptedNames, package \in PackageNames, spec_found \in BOOLEAN,
          from_spec \in FromSpecOutcomes :
            rs' = [called |-> TRUE, name |-> name, package |-> package,
                   spec_found |-> spec_found,
                   from_spec |-> IF spec_found THEN from_spec ELSE "none",
                   result |-> resolve_to_module(name, package, spec_found, from_spec)]
    /\ UNCHANGED notResolver

RSNext == ResolveToModule

----------------------------------------------------------------------------
(***************************************************************************)
(* Syntax forest: pda.models.python.forest.ASTForest.  A forest is the     *)
(* sequence of its ASTNode objects in creation order, which is pre-order   *)
(* (_build_tree adds a node, then its children), so the position of a node *)
(* is also its place in the source text.  Each node keeps the fields of    *)
(* its ast object that the scope analysis reads.  Expression children that *)
(* neither bind a name nor open a scope are left out of the tree.          *)
(***************************************************************************)
\* Largest number of nodes of a forest, the cases of match statements not
\* counted, and largest number of such cases.
MaxAstNodes == 4

MaxCases == 2

\* Largest number of ast objects in the targets of a statement.
MaxTargetSize == 5

\* ast.arguments: the parameter lists of a function; "" is None.
Arguments(posonlyargs, args, vararg, kwonlyargs, kwarg) ==
    [posonlyargs |-> posonlyargs, args |-> args, vararg |-> vararg,
     kwonlyargs |-> kwonlyargs, kwarg |-> kwarg]

NoArguments == Arguments(<<>>, <<>>, "", <<>>, "")

\* def f(a, *b, c, **d)
AllKindsOfArguments == Arguments(<<>>, <<"a">>, "b", <<"c">>, "d")

\* An assignment target or a match pattern: its ast class, the name it
\* carries ("" is None) and its sub-targets.
Target(kind, id, elts) == [kind |-> kind, id |-> id, elts |-> elts]

Name(id) == Target("Name", id, <<>>)

\* One ASTNode with the fields of its ast object; parent 0 is None, origin
\* is the file of a root (0 where the forest reports none).
AstNode(type, parent, name, targets, args, file) ==
    [type |-> type, parent |-> parent, name |-> name, targets |-> targets,
     args |-> args, origin |-> file]

Stmt(type, name, targets, args) == AstNode(type, 0, name, targets, args, 0)

\* The statements and expressions a file is written with.
Statements ==
    {Stmt("FunctionDef", "f", <<>>, AllKindsOfArguments),
     Stmt("ClassDef", "C", <<>>, NoArguments),
     Stmt("If", "", <<>>, NoArguments),
     Stmt("Assign", "", <<Name("a")>>, NoArguments),
     Stmt("Match", "", <<>>, NoArguments)}

Expressions ==
    {Stmt("Lambda", "", <<>>, NoArguments),
     Stmt("ListComp", "", <<>>, NoArguments)}

\* case [a]:
MatchCases ==
    {Stmt("match_case", "", <<Target("MatchSequence", "", <<Target("MatchAs", "a", <<>>)>>)>>,
          NoArguments)}

\* The grammar: what ast.iter_child_nodes can yield below a node.
ChildrenOf(type) ==
    CASE type \in {"Module", "FunctionDef", "ClassDef", "If", "match_case"} ->
            Statements \cup Expressions
      [] type \in {"Lambda", "ListComp"} -> Expressions
      [] type = "Match" -> MatchCases
      [] OTHER -> {}

RECURSIVE PathToRoot(_, _)
PathToRoot(f, n) == IF n = 0 THEN {} ELSE {n} \cup PathToRoot(f, f[n].parent)

\* ASTForest._build_tree: the next node is a new root, or a child of the
\* node built last or of one of its ancestors.
build_tree(f) ==
    {Append(f, AstNode("Module", 0, "", <<>>, NoArguments, o)) : o \in {0, Len(f) + 1}}
    \cup UNION {{Append(f, [c EXCEPT !.parent = p]) : c \in ChildrenOf(f[p].type)} :
                p \in PathToRoot(f, Len(f))}

match_cases(f) == {n \in DOMAIN f : f[n].type = "match_case"}

NodeIds(f) == 1..Len(f)

roots(f) == {n \in NodeIds(f) : f[n].parent = 0}

\* anytree's node.children, in insertion order.
children(f, n) == SelectSeq([i \in 1..Len(f) |-> i], LAMBDA i : f[i].parent = n)

RECURSIVE root_of(_, _)
root_of(f, n) == IF f[n].parent = 0 THEN n ELSE root_of(f, f[n].parent)

\* BaseForest.get_origin: the file a node was parsed from, 0 for None.
get_origin(f, n) == f[root_of(f, n)].origin

\* ASTNode.fqn: the names of the named nodes from the root down to n.
RECURSIVE fqn(_, _)
fqn(f, n) ==
    LET parent_prefix == IF f[n].parent # 0 THEN fqn(f, f[n].parent) ELSE <<>>
    IN  IF f[n].type \in {"FunctionDef", "AsyncFunctionDef", "ClassDef"}
        THEN Append(parent_prefix, f[n].name)
        ELSE parent_prefix

\* The number of ast objects in a sequence of targets.
RECURSIVE target_size(_)
target_size(targets) ==
    IF targets = <<>> THEN 0
    ELSE 1 + target_size(Head(targets).elts) + target_size(Tail(targets))

RECURSIVE target_names(_)
target_names(targets) ==
    IF targets = <<>> THEN {}
    ELSE (IF Head(targets).kind = "Name" THEN {Head(targets).id} ELSE {})
         \cup target_names(Head(targets).elts) \cup target_names(Tail(targets))

\* The names of targets, in the order in which a file first uses them.
TargetIds == <<"a", "b", "c">>

\* What can be written next in a target: a name already used or the next
\* unused one, an attribute, a subscript, or an opening tuple or list.
next_targets(used) ==
    {Name(TargetIds[i]) : i \in {i \in DOMAIN TargetIds : i <= Cardinality(used) + 1}}
    \cup {Target(k, "", <<>>) : k \in {"Attribute", "Subscript", "Tuple", "List"}}

\* The targets one ast object longer: the new object closes the sequence or
\* goes into the tuple or list the sequence ends with.
RECURSIVE longer_targets(_, _)
longer_targets(targets, new) ==
    {Append(targets, e) : e \in new}
    \cup (IF targets # <<>> /\ targets[Len(targets)].kind \in {"Tuple", "List"}
          THEN {[targets EXCEPT ![Len(targets)].elts = g] :
                    g \in longer_targets(targets[Len(targets)].elts, new)}
          ELSE {})

\* The statements that carry targets, and a file of one such statement, at
\* module level or in the body of a function without parameters.
TargetStatements == {"Assign", "For", "With"}

StatementFiles ==
    LET module == AstNode("Module", 0, "", <<>>, NoArguments, 1)
        def == AstNode("FunctionDef", 1, "f", <<>>, NoArguments, 0)
    IN  UNION {{<<module, AstNode(type, 1, "", <<e>>, NoArguments, 0)>>,
                <<module, def, AstNode(type, 2, "", <<e>>, NoArguments, 0)>>} :
               type \in TargetStatements, e \in next_targets({})}

\* All orders in which a set can be iterated.
RECURSIVE Orderings(_)
Orderings(S) ==
    IF S = {} THEN {<<>>}
    ELSE UNION {{<<x>> \o o : o \in Orderings(S \ {x})} : x \in S}
----------------------------------------------------------------------------
(***************************************************************************)
(* Symbol collector: pda.analyzer.scope.collector.SymbolCollector.         *)
(* The tables under construction are threaded through the operators as     *)
(* st = [symbols_by_node, raised]; once an assertion has failed nothing    *)
(* more is written.                                                        *)
(***************************************************************************)
ScopeDefining ==
    {"Module", "ClassDef", "FunctionDef", "AsyncFunctionDef", "Lambda",
     "ListComp", "SetComp", "DictComp", "GeneratorExp"}

\* SymbolCollector._is_scope_defining that knows modules only.
is_scope_defining_module_only(f, n) == f[n].type = "Module"

\* SymbolCollector._is_scope_defining
is_scope_defining(f, n) == f[n].type \in ScopeDefining

NoSymbols == [x \in {} |-> x]

\* The ast object that defines a symbol: a node of the tree, or one ast.arg
\* of a function node.
DefNode(at, arg) == [at |-> at, arg |-> arg]

\* SourceSpan.from_ast: the place of the defining ast object in the text.
from_ast(def) == <<def.at, def.arg>>

CollectedSymbol(def, fqn_, file) ==
    [node |-> def, fqn |-> fqn_, origin |-> file, span |-> from_ast(def)]

NewTables == [symbols_by_node |-> NoSymbols, raised |-> FALSE]

\* `if scope_node not in self._symbols_by_node: ... = {}`
ensure_table(st, scope_node) ==
    IF st.raised \/ scope_node \in DOMAIN st.symbols_by_node THEN st
    ELSE [st EXCEPT !.symbols_by_node = @ @@ (scope_node :> NoSymbols)]

\* SymbolCollector._define_symbol
define_symbol(f, st, name, def, scope_node, ast_node) ==
    LET file == IF get_origin(f, ast_node) # 0 THEN get_origin(f, ast_node)
                ELSE get_origin(f, scope_node)
        symbol == CollectedSymbol(def, Append(fqn(f, ast_node), name), file)
        s1 == ensure_table(st, scope_node)
    IN  IF st.raised THEN st
        ELSE IF file = 0 THEN [st EXCEPT !.raised = TRUE]
        ELSE [s1 EXCEPT !.symbols_by_node[scope_node] = (name :> symbol) @@ @]

\* SymbolCollector._collect_names_from_target without the recursion into
\* tuples and lists: only a bare name at the top binds.
RECURSIVE collect_names_from_target_top(_, _, _, _, _, _)
collect_names_from_target_top(f, st, targets, def, scope_node, ast_node) ==
    IF targets = <<>> THEN st
    ELSE LET target == Head(targets)
             s1 == IF target.kind = "Name"
                   THEN define_symbol(f, st, target.id, def, scope_node, ast_node)
                   ELSE st
         IN  collect_names_from_target_top(f, s1, Tail(targets), def, scope_node, ast_node)

\* SymbolCollector._collect_names_from_target, applied to each target of a
\* sequence in turn.
RECURSIVE collect_names_from_target(_, _, _, _, _, _)
collect_names_from_target(f, st, targets, def, scope_node, ast_node) ==
    IF targets = <<>> THEN st
    ELSE LET target == Head(targets)
             s1 == CASE target.kind = "Name" ->
                            define_symbol(f, st, target.id, def, scope_node, ast_node)
                      [] target.kind \in {"Tuple", "List"} ->
                            collect_names_from_target(f, st, target.elts, def, scope_node, ast_node)
                      [] OTHER -> st
         IN  collect_names_from_target(f, s1, Tail(targets), def, scope_node, ast_node)

\* SymbolCollector._collect_names_from_pattern, applied to each pattern of a
\* sequence in turn.  A MatchMapping keeps its rest name in id, a MatchClass
\* its patterns followed by its kwd_patterns in elts.
RECURSIVE collect_names_from_pattern(_, _, _, _, _, _)
collect_names_from_pattern(f, st, patterns, def, scope_node, ast_node) ==
    IF patterns = <<>> THEN st
    ELSE LET pattern == Head(patterns)
             named == IF pattern.id # ""
                      THEN define_symbol(f, st, pattern.id, def, scope_node, ast_node)
                      ELSE st
             s1 == CASE pattern.kind = "MatchAs" ->
                            collect_names_from_pattern(f, named, pattern.elts, def, scope_node, ast_node)
                      [] pattern.kind \in {"MatchOr", "MatchSequence", "MatchClass"} ->
                            collect_names_from_pattern(f, st, pattern.elts, def, scope_node, ast_node)
                      [] pattern.kind = "MatchMapping" ->
                            LET s0 == collect_names_from_pattern(f, st, pattern.elts, def,
                                                                 scope_node, ast_node)
                            IN  IF pattern.id # ""
                                THEN define_symbol(f, s0, pattern.id, def, scope_node, ast_node)
                                ELSE s0
                      [] pattern.kind = "MatchStar" -> named
                      [] OTHER -> st
         IN  collect_names_from_pattern(f, s1, Tail(patterns), def, scope_node, ast_node)

\* SymbolCollector._collect_parameters
collect_parameters(f, st, args, scope_node) ==
    LET all_args == args.posonlyargs \o args.args
                    \o (IF args.vararg # "" THEN <<args.vararg>> ELSE <<>>)
                    \o args.kwonlyargs
                    \o (IF args.kwarg # "" THEN <<args.kwarg>> ELSE <<>>)
        define_arg[i \in 0..Len(all_args)] ==
            IF i = 0 THEN st
            ELSE define_symbol(f, define_arg[i - 1], all_args[i],
                               DefNode(scope_node, all_args[i]), scope_node, scope_node)
    IN  define_arg[Len(all_args)]

\* SymbolCollector._collect_function
collect_function(f, st, node, scope_node) ==
    LET s1 == define_symbol(f, st, f[node].name, DefNode(node, ""), scope_node, node)
    IN  IF node \in DOMAIN s1.symbols_by_node \/ is_scope_defining(f, node)
        THEN collect_parameters(f, ensure_table(s1, node), f[node].args, node)
        ELSE s1

\* SymbolCollector._collect_class
collect_class(f, st, node, scope_node) ==
    define_symbol(f, st, f[node].name, DefNode(node, ""), scope_node, node)

\* SymbolCollector._collect_match_targets: the patterns of every case.
RECURSIVE collect_match_targets(_, _, _, _, _)
collect_match_targets(f, st, cases, node, scope_node) ==
    IF cases = <<>> THEN st
    ELSE collect_match_targets(
            f,
            collect_names_from_pattern(f, st, f[Head(cases)].targets,
                                       DefNode(Head(cases), ""), scope_node, node),
            Tail(cases), node, scope_node)

\* SymbolCollector._visit_node, and its loop over a sequence of nodes.
RECURSIVE collector_visit_node(_, _, _, _), collector_visit_nodes(_, _, _, _)
collector_visit_node(f, st, node, scope_node) ==
    IF is_scope_defining(f, node) THEN st
    ELSE LET type == f[node].type
             def == DefNode(node, "")
             s1 == CASE type \in {"FunctionDef", "AsyncFunctionDef"} ->
                            collect_function(f, st, node, scope_node)
                      [] type = "ClassDef" -> collect_class(f, st, node, scope_node)
                      [] type \in {"Assign", "AugAssign", "AnnAssign", "For", "AsyncFor",
                                   "With", "AsyncWith"} ->
                            collect_names_from_target(f, st, f[node].targets, def,
                                                      scope_node, node)
                      [] type = "NamedExpr" ->
                            IF f[node].targets[1].kind = "Name"
                            THEN define_symbol(f, st, f[node].targets[1].id, def,
                                               scope_node, node)
                            ELSE st
                      [] type = "ExceptHandler" ->
                            IF f[node].name # ""
                            THEN define_symbol(f, st, f[node].name, def, scope_node, node)
                            ELSE st
                      [] type = "Match" ->
                            collect_match_targets(
                                f, st,
                                SelectSeq(children(f, node), LAMBDA c : f[c].type = "match_case"),
                                node, scope_node)
                      [] OTHER -> st
         IN  collector_visit_nodes(
                f, s1,
                SelectSeq(children(f, node), LAMBDA c : ~is_scope_defining(f, c)),
                scope_node)

collector_visit_nodes(f, st, nodes, scope_node) ==
    IF nodes = <<>> THEN st
    ELSE collector_visit_nodes(f, collector_visit_node(f, st, Head(nodes), scope_node),
                               Tail(nodes), scope_node)

\* SymbolCollector._visit_scope_body
visit_scope_body(f, st, scope_node) ==
    collector_visit_nodes(f, st, children(f, scope_node), scope_node)

\* SymbolCollector._collect_in_scope, and its loop over the child scopes.
RECURSIVE collect_in_scope(_, _, _), collect_in_scopes(_, _, _)
collect_in_scope(f, st, scope_node) ==
    collect_in_scopes(
        f,
        visit_scope_body(f, ensure_table(st, scope_node), scope_node),
        SelectSeq(children(f, scope_node), LAMBDA c : is_scope_defining(f, c)))

collect_in_scopes(f, st, nodes) ==
    IF nodes = <<>> THEN st
    ELSE collect_in_scopes(f, collect_in_scope(f, st, Head(nodes)), Tail(nodes))

\* SymbolCollector.__call__ with the roots taken in the given order.
collect(f, order) == collect_in_scopes(f, NewTables, order)

\* A collector that has not been called.
NewCollector == [symbols_by_node |-> NoSymbols, outcome |-> "new"]

SCIdle == sc = NewCollector

ForestIdle == forest = <<>>

SCInit == forest = <<>> /\ sc = NewCollector

\* ASTForest reads the next node of the files.
BuildTree ==
    /\ sc.outcome = "new"
    /\ forest' \in build_tree(forest)
    /\ Cardinality(match_cases(forest')) <= MaxCases
    /\ Len(forest') - Cardinality(match_cases(forest')) <= MaxAstNodes
    /\ UNCHANGED <<sc, notCollector>>

\* symbols_by_node = collector(forest, node_to_scope_node)
Collect ==
    /\ \E order \in Orderings(roots(forest)) :
            LET st == collect(forest, order)
            IN  sc' = [symbols_by_node |-> st.symbols_by_node,
                       outcome |-> IF st.raised THEN "AssertionError" ELSE "returned"]
    /\ UNCHANGED <<forest, notCollector>>

SCNext == BuildTree \/ Collect

\* ASTForest reads the next ast object of the targets of the statement read
\* last; a for statement has one target.
BuildTarget ==
    LET n == Len(forest)
        targets == forest[n].targets
        new == next_targets(target_names(targets))
        longer == IF forest[n].type \in {"For", "AsyncFor"}
                  THEN {t \in longer_targets(targets, new) : Len(t) = 1}
                  ELSE longer_targets(targets, new)
    IN  /\ sc.outcome = "new"
        /\ target_size(targets) < MaxTargetSize
        /\ \E t \in longer : forest' = [forest EXCEPT ![n].targets = t]
        /\ UNCHANGED <<sc, notCollector>>

TargetsInit == forest \in StatementFiles /\ sc = NewCollector

TargetsNext == BuildTarget \/ Collect
----------------------------------------------------------------------------
(***************************************************************************)
(* Scope builder: pda.analyzer.scope.builder.ScopeBuilder.  A builder is   *)
(* the record of its attributes; scopes holds every ScopeNode it has       *)
(* constructed, a scope being known by its place in that sequence, and     *)
(* raised the exception that ended the traversal ("" is none).             *)
(***************************************************************************)
MaxCalls == 2

NoNodes == [x \in {} |-> x]

\* ScopeBuilder.__init__
NewBuilder ==
    [node_to_scope |-> NoNodes, module_scopes |-> <<>>, current_scope |-> 0,
     current_origin |-> 0, node_to_scope_node |-> NoNodes,
     symbols_by_node |-> NoSymbols, scopes |-> <<>>, raised |-> "",
     calls |-> 0, given |-> <<>>, outcome |-> "new", returned |-> {}]

\* ScopeNode.__init__ as the builder calls it: `symbols or {}`, no imports.
BuiltScope(scope_type, node, file, parent, symbols) ==
    [scope_type |-> scope_type, node |-> node, origin |-> file, parent |-> parent,
     symbols |-> symbols, imports |-> NoSymbols]

\* self._symbols_by_node.get(node, {})
symbols_of(b, node) ==
    IF node \in DOMAIN b.symbols_by_node THEN b.symbols_by_node[node] ELSE NoSymbols

\* ScopeBuilder._map_node_to_current_scope
map_node_to_current_scope(b, node) ==
    IF b.current_scope # 0
    THEN [b EXCEPT !.node_to_scope = (node :> b.current_scope) @@ @,
                   !.node_to_scope_node = (node :> b.scopes[b.current_scope].node) @@ @]
    ELSE b

RECURSIVE builder_visit_node(_, _, _), visit_children(_, _, _)

\* ScopeBuilder._visit_with_new_scope that leaves the new scope current.
visit_with_new_scope_kept(f, b, node, scope_type) ==
    IF b.current_origin = 0 THEN [b EXCEPT !.raised = "PDAMissingScopeOriginError"]
    ELSE LET new_scope == Len(b.scopes) + 1
             b1 == [b EXCEPT
                      !.scopes = Append(@, BuiltScope(scope_type, node, b.current_origin,
                                                      b.current_scope, symbols_of(b, node))),
                      !.node_to_scope = (node :> new_scope) @@ @,
                      !.node_to_scope_node = (node :> node) @@ @,
                      !.current_scope = new_scope]
         IN  visit_children(f, b1, children(f, node))

\* ScopeBuilder._visit_with_new_scope
visit_with_new_scope(f, b, node, scope_type) ==
    IF b.current_origin = 0 THEN [b EXCEPT !.raised = "PDAMissingScopeOriginError"]
    ELSE LET new_scope == Len(b.scopes) + 1
             previous_scope == b.current_scope
             b1 == [b EXCEPT
                      !.scopes = Append(@, BuiltScope(scope_type, node, b.current_origin,
                                                      b.current_scope, symbols_of(b, node))),
                      !.node_to_scope = (node :> new_scope) @@ @,
                      !.node_to_scope_node = (node :> node) @@ @,
                      !.current_scope = new_scope]
             b2 == visit_children(f, b1, children(f, node))
         IN  IF b2.raised # "" THEN b2 ELSE [b2 EXCEPT !.current_scope = previous_scope]

\* ScopeBuilder._visit_module
visit_module(f, b, node) ==
    IF get_origin(f, node) = 0 THEN [b EXCEPT !.raised = "PDAMissingScopeOriginError"]
    ELSE LET module_scope == Len(b.scopes) + 1
             b1 == [b EXCEPT
                      !.scopes = Append(@, BuiltScope(MODULE_T, node, get_origin(f, node), 0,
                                                      symbols_of(b, node))),
                      !.module_scopes = Append(@, module_scope),
                      !.current_scope = module_scope,
                      !.current_origin = get_origin(f, node)]
         IN  visit_children(f, map_node_to_current_scope(b1, node), children(f, node))

\* ScopeBuilder._visit_node
builder_visit_node(f, b, node) ==
    IF b.raised # "" THEN b
    ELSE CASE f[node].type = "Module" -> visit_module(f, b, node)
           [] f[node].type = "ClassDef" -> visit_with_new_scope(f, b, node, CLASS_T)
           [] f[node].type \in {"FunctionDef", "AsyncFunctionDef"} ->
                visit_with_new_scope(f, b, node, FUNCTION_T)
           [] f[node].type = "Lambda" -> visit_with_new_scope(f, b, node, LAMBDA_T)
           [] f[node].type \in {"ListComp", "SetComp", "DictComp", "GeneratorExp"} ->
                visit_with_new_scope(f, b, node, COMPREHENSION_T)
           [] OTHER -> visit_children(f, map_node_to_current_scope(b, node),
                                      children(f, node))

\* ScopeBuilder._visit_children, also the loop over the roots.
visit_children(f, b, nodes) ==
    IF nodes = <<>> THEN b
    ELSE visit_children(f, builder_visit_node(f, b, Head(nodes)), Tail(nodes))

\* ScopeForest(scopes): the roots of the forest.
ScopeForest(module_scopes) == {module_scopes[i] : i \in DOMAIN module_scopes}

\* ScopeBuilder.__call__ with the roots taken in the given order.
builder_call(b, f, symbols_by_node, order) ==
    LET b1 == [b EXCEPT !.symbols_by_node = symbols_by_node,
                        !.node_to_scope_node = NoNodes,
                        !.raised = "", !.calls = @ + 1, !.given = f]
        b2 == visit_children(f, b1, order)
    IN  IF b2.raised # "" THEN [b2 EXCEPT !.outcome = b2.raised, !.returned = {}]
        ELSE IF b2.module_scopes = <<>>
        THEN [b2 EXCEPT !.raised = "PDAEmptyScopeError", !.outcome = "PDAEmptyScopeError",
                        !.returned = {}]
        ELSE [b2 EXCEPT !.outcome = "returned", !.returned = ScopeForest(b2.module_scopes)]

SBIdle == sb = NewBuilder

SBInit == forest = <<>> /\ sb = NewBuilder

\* ASTForest reads the next node of the files, before the builder is used.
SBBuildTree ==
    /\ sb.calls = 0
    /\ forest' \in build_tree(forest)
    /\ Len(forest') <= MaxAstNodes
    /\ UNCHANGED <<sb, notBuilder>>

\* scope_forest, node_to_scope_node = builder(forest), on the forest of the
\* files or on the forest of no files.
Build ==
    /\ sb.calls < MaxCalls
    /\ \E given \in {forest, <<>>} :
        \E order \in Orderings(roots(given)) :
            sb' = builder_call(sb, given, NoSymbols, order)
    /\ UNCHANGED <<forest, notBuilder>>

SBNext == SBBuildTree \/ Build
----------------------------------------------------------------------------
(***************************************************************************)
(* Scope analyzer: pda.analyzer.scope.analyzer.ScopeAnalyzer.  The files   *)
(* of a call are the files the forest was read from.                       *)
(***************************************************************************)
\* ScopeAnalyzer.__init__ and clear(); collected is the symbols_by_node of
\* the last _analyze.
NewAnalyzer ==
    [files |-> {}, scope_forest |-> {}, scopes |-> <<>>, symbols_by_scope |-> NoNodes,
     collected |-> NoSymbols, outcome |-> "new"]

\* The files an ASTForest was constructed from.
files_of(f) == {get_origin(f, r) : r \in roots(f)}

\* The scopes of a ScopeForest: the roots and all their descendants.
RECURSIVE scope_root(_, _)
scope_root(scopes_, s) ==
    IF scopes_[s].parent = 0 THEN s ELSE scope_root(scopes_, scopes_[s].parent)

forest_scopes(scopes_, roots_) == {s \in DOMAIN scopes_ : scope_root(scopes_, s) \in roots_}

\* ScopeAnalyzer._analyze with the roots taken in the given order; an
\* exception of a builder or of the collector ends it.
analyze(f, order) ==
    LET cleared == [NewAnalyzer EXCEPT !.files = files_of(f)]
        skeleton == builder_call(NewBuilder, f, NoSymbols, order)
        tables == collect(f, order)
        final == builder_call(NewBuilder, f, tables.symbols_by_node, order)
    IN  IF skeleton.outcome # "returned" THEN [cleared EXCEPT !.outcome = skeleton.outcome]
        ELSE IF tables.raised
        THEN [cleared EXCEPT !.outcome = "AssertionError"]
        ELSE IF final.outcome # "returned"
        THEN [cleared EXCEPT !.outcome = final.outcome,
                             !.collected = tables.symbols_by_node]
        ELSE [cleared EXCEPT
                !.scope_forest = final.returned,
                !.scopes = final.scopes,
                !.collected = tables.symbols_by_node,
                !.symbols_by_scope =
                    [s \in forest_scopes(final.scopes, final.returned) |->
                        final.scopes[s].symbols],
                !.outcome = "returned"]

SAIdle == sa = NewAnalyzer

SAInit == forest = <<>> /\ sa = NewAnalyzer

\* ASTForest reads the next node of the files, before the analyzer is used.
SABuildTree ==
    /\ sa.outcome = "new"
    /\ forest' \in build_tree(forest)
    /\ Cardinality(match_cases(forest')) <= MaxCases
    /\ Len(forest') - Cardinality(match_cases(forest')) <= MaxAstNodes
    /\ UNCHANGED <<sa, notAnalyzer>>

\* analyzer(files): without files `_analyze_if_needed` raises ValueError,
\* otherwise nothing is cached yet and it runs _analyze.
Analyze ==
    /\ sa.outcome = "new"
    /\ IF forest = <<>>
       THEN sa' = [sa EXCEPT !.outcome = "ValueError"]
       ELSE \E order \in Orderings(roots(forest)) : sa' = analyze(forest, order)
    /\ UNCHANGED <<forest, notAnalyzer>>

SANext == SABuildTree \/ Analyze
----------------------------------------------------------------------------
\* pda.analyzer.imports.special: the tests of `if` statements and the main
\* guard predicates (special/main.py, special/common.py).
\*
\* An expression of the ast module is a record: `kind` is its class, `id` the
\* id of a Name, the attr of an Attribute or the value of a Constant, `ops`
\* the operators of a Compare, UnaryOp or BoolOp, and `operands` the
\* sub-expressions: left followed by the comparators of a Compare, the
\* operand of a UnaryOp, the values of a BoolOp.

\* The longest if/elif/else nesting the statements under test have, counted
\* in `if` statements below the first.
MaxElifs == 1

Expr(kind, id, ops, operands) ==
    [kind |-> kind, id |-> id, ops |-> ops, operands |-> operands]

ExprName(id) == Expr("Name", id, <<>>, <<>>)
ExprConstant(value) == Expr("Constant", value, <<>>, <<>>)
Attribute(attr) == Expr("Attribute", attr, <<>>, <<>>)
Compare(left, ops, comparators) == Expr("Compare", "", ops, <<left>> \o comparators)
UnaryOp(op, operand) == Expr("UnaryOp", "", <<op>>, <<operand>>)
BoolOp(op, values) == Expr("BoolOp", "", <<op>>, values)

left(node) == node.operands[1]
comparators(node) == Tail(node.operands)

\* ast.If and the statements of its orelse; `pass` stands for every
\* statement that is not an `if`.
If(test, orelse) == [type |-> "If", test |-> test, orelse |-> orelse]
Pass == [type |-> "Pass", test |-> ExprName("pass"), orelse |-> <<>>]

\* The tests the main guard predicates are applied to.
DunderName == ExprName("__name__")
MainString == ExprConstant("__main__")
SomeCondition == ExprName("some_condition")

MainComparisons ==
    {Compare(DunderName, <<op>>, <<MainString>>) : op \in {"Eq", "NotEq"}}
        \cup {Compare(MainString, <<op>>, <<DunderName>>) : op \in {"Eq", "NotEq"}}
        \cup {Compare(DunderName, <<"Eq">>, <<ExprConstant("other")>>),
              Compare(SomeCondition, <<"NotEq">>, <<MainString>>),
              Compare(DunderName, <<"Eq", "Eq">>, <<MainString, SomeCondition>>)}

MainNegations ==
    {UnaryOp("Not", e) :
        e \in {Compare(DunderName, <<"Eq">>, <<MainString>>),
               Compare(MainString, <<"Eq">>, <<DunderName>>),
               Compare(DunderName, <<"NotEq">>, <<MainString>>),
               SomeCondition,
               UnaryOp("Not", Compare(DunderName, <<"Eq">>, <<MainString>>))}}

MainChains ==
    {BoolOp(op, <<SomeCondition, e>>) :
        op \in {"And", "Or"}, e \in MainComparisons \cup MainNegations \cup {SomeCondition}}
        \cup {BoolOp(op, <<e, SomeCondition>>) :
                op \in {"And", "Or"},
                e \in {Compare(DunderName, <<"Eq">>, <<MainString>>),
                       Compare(DunderName, <<"NotEq">>, <<MainString>>)}}
        \cup {BoolOp(outer, <<SomeCondition, BoolOp(inner, <<e, SomeCondition>>)>>) :
                outer \in {"And", "Or"}, inner \in {"And", "Or"},
                e \in {Compare(DunderName, <<"Eq">>, <<MainString>>),
                       Compare(DunderName, <<"NotEq">>, <<MainString>>)}}

MainTests == MainComparisons \cup MainNegations \cup MainChains \cup {SomeCondition}

\* special/main.py
is_name_dunder_name(node) == node.kind = "Name" /\ node.id = "__name__"

is_main_string(node) == node.kind = "Constant" /\ node.id = "__main__"

main_operands_unswapped(node) ==
    is_name_dunder_name(left(node)) /\ is_main_string(comparators(node)[1])
main_operands(node) ==
    \/ is_name_dunder_name(left(node)) /\ is_main_string(comparators(node)[1])
    \/ is_main_string(left(node)) /\ is_name_dunder_name(comparators(node)[1])

is_main_guard_comparison(node) ==
    IF Len(node.ops) # 1 \/ Len(comparators(node)) # 1 THEN FALSE
    ELSE IF node.ops[1] # "Eq" THEN FALSE
    ELSE main_operands(node)

contains_main_guard_in_and_chain(node) ==
    \E i \in 1..Len(node.operands) :
        node.operands[i].kind = "Compare" /\ is_main_guard_comparison(node.operands[i])

is_or_clause(node) == node.kind = "BoolOp" /\ node.ops[1] = "Or"

is_and_clause(node) == node.kind = "BoolOp" /\ node.ops[1] = "And"

contains_main_guard_in_and(node) ==
    IF node.kind = "Compare" THEN is_main_guard_comparison(node)
    ELSE IF node.kind = "BoolOp" /\ node.ops[1] = "And"
         THEN contains_main_guard_in_and_chain(node)
         ELSE FALSE

is_negated_main_guard_comparison(node) ==
    IF Len(node.ops) # 1 \/ Len(comparators(node)) # 1 THEN FALSE
    ELSE IF node.ops[1] # "NotEq" THEN FALSE
    ELSE main_operands(node)

is_negated_main_guard(node) ==
    IF /\ node.kind = "UnaryOp" /\ node.ops[1] = "Not"
       /\ node.operands[1].kind = "Compare"
    THEN is_main_guard_comparison(node.operands[1])
    ELSE IF node.kind = "Compare" THEN is_negated_main_guard_comparison(node)
    ELSE FALSE

contains_negated_main_guard_in_or_chain(node) ==
    \E i \in 1..Len(node.operands) : is_negated_main_guard(node.operands[i])

contains_main_guard_negation(node) ==
    IF is_negated_main_guard(node) THEN TRUE
    ELSE IF node.kind = "BoolOp" /\ node.ops[1] = "Or"
         THEN contains_negated_main_guard_in_or_chain(node)
         ELSE FALSE

is_elif_branch(orelse) == Len(orelse) = 1 /\ orelse[1].type = "If"

\* None is the empty sequence, the next `elif` a sequence of one ast.If.
get_next_elif(current) ==
    IF current.orelse # <<>> /\ is_elif_branch(current.orelse)
    THEN <<current.orelse[1]>>
    ELSE <<>>

RECURSIVE any_branch_excludes_main_guard(_)
any_branch_excludes_main_guard(current) ==
    IF contains_main_guard_negation(current.test) THEN TRUE
    ELSE IF get_next_elif(current) = <<>> THEN FALSE
    ELSE any_branch_excludes_main_guard(get_next_elif(current)[1])

is_main_guard_only(if_node, in_else_branch) ==
    IF in_else_branch THEN any_branch_excludes_main_guard(if_node)
    ELSE IF if_node.test.kind = "Compare" /\ is_main_guard_comparison(if_node.test) THEN TRUE
    ELSE IF is_and_clause(if_node.test) THEN contains_main_guard_in_and(if_node.test)
    ELSE IF is_or_clause(if_node.test) THEN FALSE
    ELSE FALSE

\* The `if` statements nested through orelse below the first one.
RECURSIVE nested_ifs(_)
nested_ifs(if_node) ==
    IF if_node.orelse # <<>> /\ if_node.orelse[1].type = "If"
    THEN 1 + nested_ifs(if_node.orelse[1])
    ELSE 0

\* The state of one use of the predicate: the `if` statement parsed, and the
\* arguments and the value of the last call.
NoGuardCall == [called |-> FALSE, in_else_branch |-> FALSE, returned |-> FALSE]
MGIdle == mg = [if_node |-> If(SomeCondition, <<>>), call |-> NoGuardCall]

\* ast.parse of `if <test>: pass`, with or without a plain `else: pass`.
MGInit ==
    \E test \in MainTests, orelse \in {<<>>, <<Pass>>} :
        mg = [if_node |-> If(test, orelse), call |-> NoGuardCall]

\* The parsed statement becomes the `elif` of a new `if`, or the first
\* statement of its `else:` block, followed by another one.
WriteIf ==
    /\ mg.call = NoGuardCall
    /\ nested_ifs(mg.if_node) < MaxElifs
    /\ \E test \in MainTests, orelse \in {<<mg.if_node>>, <<mg.if_node, Pass>>} :
        mg' = [mg EXCEPT !.if_node = If(test, orelse)]
    /\ UNCHANGED notMainGuard

\* is_main_guard_only(if_node, in_else_branch)
MainGuard ==
    /\ mg.call = NoGuardCall
    /\ \E in_else_branch \in BOOLEAN :
        mg' = [mg EXCEPT !.call = [called |-> TRUE,
                                   in_else_branch |-> in_else_branch,
                                   returned |-> is_main_guard_only(mg.if_node, in_else_branch)]]
    /\ UNCHANGED notMainGuard

MGNext == WriteIf \/ MainGuard

----------------------------------------------------------------------------
\* pda.specification.imports.scope and pda.analyzer.imports.parser: the
\* ImportScope flags and the classification of one import statement by the
\* statements that enclose it.
\*
\* An ImportScope is the set of its single flags (`|` is union, `&` is
\* intersection, NONE the empty set).

\* The most statements that enclose the import under classification.
MaxDepth == 3

ImportScopeFlags ==
    {"IF", "ELIF", "ELSE", "CASE", "DEFAULT", "TRY", "EXCEPT", "TRY_ELSE",
     "FINALLY", "LOOP", "WITH", "CLASS", "FUNCTION", "DECORATOR",
     "TYPE_CHECKING", "MAIN"}

NONE == {}
IF_ELSE == {"IF", "ELSE"}

\* ImportScope.validate: TRUE when it raises ValueError.
validate_without_default(self) ==
    \/ "TYPE_CHECKING" \in self /\ self \cap IF_ELSE = {}
    \/ "MAIN" \in self /\ self \cap IF_ELSE = {}
    \/ "DECORATOR" \in self /\ "FUNCTION" \notin self
validate(self) ==
    \/ "TYPE_CHECKING" \in self /\ self \cap IF_ELSE = {}
    \/ "MAIN" \in self /\ self \cap IF_ELSE = {}
    \/ "DEFAULT" \in self /\ "CASE" \notin self
    \/ "DECORATOR" \in self /\ "FUNCTION" \notin self

\* An ancestor of the import: the class of its ast object, the field of that
\* object which holds the next node on the way down to the import, the test
\* of an `if` and the pattern of a `case`.
NoTest == ExprName("")
Ancestor(type, block, test, pattern) ==
    [type |-> type, block |-> block, test |-> test, pattern |-> pattern]

TypeCheckingName == ExprName("TYPE_CHECKING")

IfTests ==
    {TypeCheckingName,
     Attribute("TYPE_CHECKING"),
     UnaryOp("Not", TypeCheckingName),
     BoolOp("Or", <<TypeCheckingName, SomeCondition>>),
     Compare(DunderName, <<"Eq">>, <<MainString>>),
     Compare(MainString, <<"Eq">>, <<DunderName>>),
     Compare(DunderName, <<"NotEq">>, <<MainString>>),
     UnaryOp("Not", Compare(DunderName, <<"Eq">>, <<MainString>>)),
     SomeCondition}

\* `case _:` and `case x:` are MatchAs without a sub-pattern.
CasePatterns == {"MatchAs(pattern=None)", "MatchValue"}

\* The statements that can hold a statement, with the field that holds it.
StatementAncestors ==
    {Ancestor("If", block, test, "") : block \in {"body", "orelse"}, test \in IfTests}
        \cup {Ancestor("Try", block, NoTest, "") : block \in {"body", "orelse", "finalbody"}}
        \cup {Ancestor("ExceptHandler", "body", NoTest, "")}
        \cup {Ancestor("match_case", "body", NoTest, pattern) : pattern \in CasePatterns}
        \cup {Ancestor(type, "body", NoTest, "") :
                type \in {"For", "While", "With", "FunctionDef", "ClassDef"}}

\* The parents ast gives a node: an ExceptHandler lies in the handlers of a
\* Try, a match_case in the cases of a Match, a statement in a block.
ParentsOf(type) ==
    CASE type = "ExceptHandler" -> {Ancestor("Try", "handlers", NoTest, "")}
      [] type = "match_case" -> {Ancestor("Match", "cases", NoTest, "")}
      [] OTHER -> StatementAncestors

\* node.has_ancestor_of_id(items), for the items of field `block` of the
\* k-th ancestor: has_ancestor_matching starts at node.parent, so the
\* import itself is never found, only the (k-1)-th ancestor.
has_ancestor_of_id(path, k, block) == k > 1 /\ path[k].block = block

\* node.has_ancestor_of_id(child.body) for the children (handlers, cases)
\* of the k-th ancestor: only the child on the path can hold an ancestor.
has_ancestor_in_child(path, k, block) == k > 2 /\ path[k].block = block

\* What a handler gives: the flags it returns, or the ValueError it raises.
Flagged(scope) == [raised |-> FALSE, scope |-> scope, handler |-> ""]
Raised(handler) == [raised |-> TRUE, scope |-> NONE, handler |-> handler]

RECURSIVE references_type_checking(_)
references_type_checking(node) ==
    IF node.kind = "Name" /\ node.id = "TYPE_CHECKING" THEN TRUE
    ELSE IF node.kind = "Attribute" /\ node.id = "TYPE_CHECKING" THEN TRUE
    ELSE IF node.kind = "BoolOp"
         THEN \E i \in 1..Len(node.operands) : references_type_checking(node.operands[i])
    ELSE FALSE

is_type_checking_condition(test, negated) ==
    IF test.kind = "UnaryOp" /\ test.ops[1] = "Not"
    THEN negated /\ references_type_checking(test.operands[1])
    ELSE ~negated /\ references_type_checking(test)

RECURSIVE checks_name_main(_)
checks_name_main(node) ==
    IF node.kind = "Compare"
    THEN /\ left(node).kind = "Name" /\ left(node).id = "__name__"
         /\ \E i \in 1..Len(comparators(node)) :
                comparators(node)[i].kind = "Constant" /\ comparators(node)[i].id = "__main__"
    ELSE IF node.kind = "UnaryOp" /\ node.ops[1] = "Not"
         THEN checks_name_main(node.operands[1])
    ELSE IF node.kind = "BoolOp"
         THEN \E i \in 1..Len(node.operands) : checks_name_main(node.operands[i])
    ELSE FALSE

is_main_condition(test) == checks_name_main(test)

\* The handlers take the path of ancestors and the position k of the `if`,
\* `try`, `match` or `def` among them.
handle_if_scope(path, k) ==
    LET is_in_body == has_ancestor_of_id(path, k, "body")
        is_in_orelse == has_ancestor_of_id(path, k, "orelse")
        test == path[k].test
    IN  IF ~is_in_body /\ ~is_in_orelse THEN Raised("_handle_if_scope")
        ELSE IF is_in_body
        THEN Flagged({"IF"} \cup
                (IF is_type_checking_condition(test, FALSE) THEN {"TYPE_CHECKING"}
                 ELSE IF is_main_condition(test) THEN {"MAIN"}
                 ELSE NONE))
        ELSE Flagged({"ELSE"} \cup
                (IF is_type_checking_condition(test, TRUE) THEN {"TYPE_CHECKING"} ELSE NONE))

handle_try_scope(path, k) ==
    IF has_ancestor_of_id(path, k, "finalbody") THEN Flagged({"FINALLY"})
    ELSE IF has_ancestor_in_child(path, k, "handlers") THEN Flagged({"EXCEPT"})
    ELSE IF has_ancestor_of_id(path, k, "orelse") THEN Flagged({"TRY_ELSE"})
    ELSE IF has_ancestor_of_id(path, k, "body") THEN Flagged({"TRY"})
    ELSE Raised("_handle_try_scope")

handle_match_scope(path, k) ==
    IF has_ancestor_in_child(path, k, "cases")
    THEN IF path[k - 1].pattern = "MatchAs(pattern=None)"
         THEN Flagged({"DEFAULT"})
         ELSE Flagged({"CASE"})
    ELSE Flagged(NONE)

handle_function_scope(path, k) ==
    Flagged({"FUNCTION"} \cup
        (IF has_ancestor_of_id(path, k, "decorator_list") THEN {"DECORATOR"} ELSE NONE))

\* One turn of the loop of _determine_scope: the flags the k-th ancestor adds.
scope_of_ancestor(path, k) ==
    CASE path[k].type = "If" -> handle_if_scope(path, k)
      [] path[k].type = "Try" -> handle_try_scope(path, k)
      [] path[k].type = "Match" -> handle_match_scope(path, k)
      [] path[k].type \in {"For", "While", "ListComp", "SetComp", "DictComp", "GeneratorExp"} ->
            Flagged({"LOOP"})
      [] path[k].type = "With" -> Flagged({"WITH"})
      [] path[k].type \in {"FunctionDef", "AsyncFunctionDef"} -> handle_function_scope(path, k)
      [] path[k].type = "ClassDef" -> Flagged({"CLASS"})
      [] OTHER -> Flagged(NONE)

RECURSIVE walk_ancestors(_, _, _)
walk_ancestors(path, k, scope) ==
    IF k > Len(path) THEN Flagged(scope)
    ELSE IF scope_of_ancestor(path, k).raised THEN scope_of_ancestor(path, k)
    ELSE walk_ancestors(path, k + 1, scope \cup scope_of_ancestor(path, k).scope)

\* _determine_scope: the walk from node.parent to the root, then validate.
determine_scope(path) ==
    LET walked == walk_ancestors(path, 1, NONE)
    IN  IF walked.raised
        THEN [outcome |-> "ValueError", scope |-> NONE, raised_in |-> walked.handler]
        ELSE IF validate(walked.scope)
        THEN [outcome |-> "ValueError", scope |-> NONE, raised_in |-> "validate"]
        ELSE [outcome |-> "returned", scope |-> walked.scope, raised_in |-> ""]

\* The classifier's state: the ancestors of the import in the file, from
\* its parent outwards (the Module, which adds no flag, is left out), the
\* operation applied last, how it ended, and the ImportScope it was about.
NewClassifier ==
    [path |-> <<>>, op |-> "none", outcome |-> "none", scope |-> NONE, raised_in |-> ""]
ICIdle == ic = NewClassifier
ICInit == ic = NewClassifier

\* The file has one more statement around the import.
Enclose ==
    /\ ic.op = "none"
    /\ Len(ic.path) < MaxDepth
    /\ \E ancestor \in (IF ic.path = <<>> THEN StatementAncestors
                         ELSE ParentsOf(ic.path[Len(ic.path)].type)) :
        ic' = [ic EXCEPT !.path = Append(@, ancestor)]
    /\ UNCHANGED notClassifier

\* scope = self._determine_scope(import_node), on a file where every
\* handler lies in a `try` and every case in a `match`.
Classify ==
    /\ ic.op = "none"
    /\ IF ic.path = <<>> THEN TRUE
       ELSE ic.path[Len(ic.path)].type \notin {"ExceptHandler", "match_case"}
    /\ ic' = [ic EXCEPT !.op = "determine_scope",
                        !.outcome = determine_scope(ic.path).outcome,
                        !.scope = determine_scope(ic.path).scope,
                        !.raised_in = determine_scope(ic.path).raised_in]
    /\ UNCHANGED notClassifier

\* scope.validate() on an ImportScope composed from any flags.
Validate ==
    /\ ic.op = "none"
    /\ ic.path = <<>>
    /\ \E scope \in SUBSET ImportScopeFlags :
        ic' = [ic EXCEPT !.op = "validate",
                         !.outcome = IF validate(scope) THEN "ValueError" ELSE "returned",
                         !.scope = scope,
                         !.raised_in = IF validate(scope) THEN "validate" ELSE ""]
    /\ UNCHANGED notClassifier

ICNext == Enclose \/ Classify \/ Validate

----------------------------------------------------------------------------
\* pda.analyzer.scope.analyzer: the calls of one ScopeAnalyzer and what it
\* caches between them.  A ScopeForest is known here by the number of the
\* _analyze run that built it (0 is None); the files are path strings.

\* The most calls (of the analyzer or of clear) made on one ScopeAnalyzer.
MaxAnalyzerCalls == 3

\* Optional[List[...]]: None, or a list of paths.
NoFiles == [is_none |-> TRUE, paths |-> <<>>]
FileList(paths) == [is_none |-> FALSE, paths |-> paths]

\* The `files` arguments of the calls; "broken.py" cannot be analysed.
FileArguments ==
    {NoFiles} \cup
        {FileList(paths) :
            paths \in {<<>>, <<"a.py">>, <<"./a.py">>, <<"b.py">>, <<"broken.py">>,
                       <<"a.py", "b.py">>, <<"b.py", "a.py">>}}

\* Path(path).resolve(), in the working directory /cwd.
path_resolve_verbatim(path) == path
path_resolve(path) ==
    CASE path = "a.py" -> "/cwd/a.py"
      [] path = "./a.py" -> "/cwd/a.py"
      [] path = "b.py" -> "/cwd/b.py"
      [] path = "broken.py" -> "/cwd/broken.py"
      [] OTHER -> path

resolve_paths(paths) ==
    IF paths.is_none THEN <<>>
    ELSE [i \in 1..Len(paths.paths) |-> path_resolve(paths.paths[i])]

\* ScopeAnalyzer.clear
analyzer_clear(self) == [self EXCEPT !.files = NoFiles, !.scope_forest = 0]

\* ScopeAnalyzer._analyze: the builders and the collector either all
\* return, and the new forest is kept, or one of them raises after clear()
\* and the assignment of _files.
analyze_paths(self, paths) ==
    LET cleared == [analyzer_clear(self) EXCEPT !.files = FileList(paths),
                                               !.analyses = @ + 1]
    IN  IF \E i \in 1..Len(paths) : paths[i] = "/cwd/broken.py"
        THEN [self |-> cleared, raised |-> TRUE]
        ELSE [self |-> [cleared EXCEPT !.scope_forest = cleared.analyses], raised |-> FALSE]

\* ScopeAnalyzer._analyze_if_needed: the analyzer afterwards, the outcome
\* and the forest returned.
analyze_if_needed(self, files, refresh) ==
    LET files_to_use == resolve_paths(IF files.is_none \/ files.paths = <<>>
                                      THEN self.files ELSE files)
        analysed == analyze_paths(self, files_to_use)
    IN  IF files_to_use = <<>>
        THEN [self |-> self, outcome |-> "ValueError", returned |-> 0]
        ELSE IF self.scope_forest = 0 \/ refresh \/ self.files # FileList(files_to_use)
        THEN IF analysed.raised
             THEN [self |-> analysed.self, outcome |-> "Exception", returned |-> 0]
             ELSE [self |-> analysed.self, outcome |-> "returned",
                   returned |-> analysed.self.scope_forest]
        ELSE [self |-> self, outcome |-> "returned", returned |-> self.scope_forest]

\* ScopeAnalyzer.__bool__
analyzer_bool(self) == self.scope_forest # 0

\* ScopeAnalyzer.__init__, with the record of the last operation: its
\* arguments, its outcome and the analyzer as it was before.
NoAnalyzerCall ==
    [op |-> "none", files |-> NoFiles, refresh |-> FALSE, outcome |-> "none", returned |-> 0,
     before |-> [files |-> NoFiles, scope_forest |-> 0, analyses |-> 0]]

NewCachingAnalyzer ==
    [files |-> NoFiles, scope_forest |-> 0, analyses |-> 0, calls |-> 0, last |-> NoAnalyzerCall]

ACIdle == ac = NewCachingAnalyzer
ACInit == ac = NewCachingAnalyzer

held(self) == [files |-> self.files, scope_forest |-> self.scope_forest, analyses |-> self.analyses]

\* analyzer(files, refresh=refresh)
AnalyzerCall ==
    /\ ac.calls < MaxAnalyzerCalls
    /\ \E files \in FileArguments, refresh \in BOOLEAN :
        LET result == analyze_if_needed(ac, files, refresh)
        IN  ac' = [result.self EXCEPT
                    !.calls = ac.calls + 1,
                    !.last = [op |-> "call", files |-> files, refresh |-> refresh,
                              outcome |-> result.outcome, returned |-> result.returned,
                              before |-> held(ac)]]
    /\ UNCHANGED notAnalyzerCalls

\* analyzer.clear()
AnalyzerClear ==
    /\ ac.calls < MaxAnalyzerCalls
    /\ ac' = [analyzer_clear(ac) EXCEPT
                !.calls = ac.calls + 1,
                !.last = [NoAnalyzerCall EXCEPT !.op = "clear", !.before = held(ac)]]
    /\ UNCHANGED notAnalyzerCalls

ACNext == AnalyzerCall \/ AnalyzerClear

----------------------------------------------------------------------------
\* fda.importer.registry: ModuleRegistry.traverse_dependencies over the
\* registered modules.  A call of the recursive method is a frame of the
\* stack; the frame at position i runs at depth i - 1.

\* The most dependency edges of the registry that is traversed.
MaxEdges == 3

\* ImportConfig.max_depth: None, or a depth.
NoMaxDepth == [is_none |-> TRUE, depth |-> 0]
MaxDepthOf(depth) == [is_none |-> FALSE, depth |-> depth]

edge_count(g) == Cardinality({e \in Fqns \X Fqns : e[2] \in g.edges[e[1]]})

\* self.get(fqn)
registry_has(g, name) == name \in Range(g.nodes)

\* The entry of traverse_dependencies(start_module, visited, depth), up to
\* the loop over the dependencies: the returns without descent, or a new
\* frame.  `external` are the modules whose origin is_internal_module
\* rejects.
depth_reached_never(config, depth) == FALSE
depth_reached(config, depth) == ~config.max_depth.is_none /\ depth >= config.max_depth.depth

traverse_enter(t, start_module, depth) ==
    IF start_module \in t.visited THEN t
    ELSE IF depth_reached(t.config, depth) THEN t
    ELSE LET seen == [t EXCEPT !.visited = @ \cup {start_module}]
         IN  IF ~registry_has(t.graph, start_module) THEN seen
             ELSE IF ~t.config.scan_external /\ start_module \in t.config.external THEN seen
             ELSE [seen EXCEPT !.stack =
                        Append(@, [node |-> start_module,
                                   todo |-> get_dependencies(t.graph, start_module)])]

NoTraversal ==
    [graph |-> EmptyDependencyGraph,
     config |-> [max_depth |-> NoMaxDepth, scan_external |-> TRUE, external |-> {}],
     state |-> "new", start |-> 0, visited |-> {}, stack |-> <<>>]

TRIdle == tr = NoTraversal
TRInit == tr = NoTraversal

\* registry.register_module(module), for the next module.
TraverseRegister ==
    /\ tr.state = "new"
    /\ Len(tr.graph.nodes) < MaxFqns
    /\ \E targets \in ImportSets :
        /\ edge_count(tr.graph) + Cardinality(targets) <= MaxEdges
        /\ tr' = [tr EXCEPT !.graph = register_module(@, Len(tr.graph.nodes) + 1, targets)]
    /\ UNCHANGED notTraverse

\* registry.traverse_dependencies(start_module) under a configuration: no
\* limit or a limit of the depth, external modules scanned or the last
\* module name external and not scanned.
TraverseStart ==
    /\ tr.state = "new"
    /\ \E start_module \in Fqns, scan_external \in BOOLEAN,
          max_depth \in {NoMaxDepth} \cup {MaxDepthOf(k) : k \in 0..MaxFqns} :
        LET config == [max_depth |-> max_depth, scan_external |-> scan_external,
                       external |-> IF scan_external THEN {} ELSE {MaxFqns}]
        IN  tr' = [traverse_enter([tr EXCEPT !.config = config, !.start = start_module],
                                  start_module, 0)
                     EXCEPT !.state = "traversing"]
    /\ UNCHANGED notTraverse

\* One turn of `for dependency in self.graph.get_dependencies(...)` in the
\* innermost call, or its `return visited`.
TraverseStep ==
    /\ tr.state = "traversing"
    /\ tr.stack # <<>>
    /\ LET top == tr.stack[Len(tr.stack)]
       IN  IF top.todo = {}
           THEN tr' = [tr EXCEPT !.stack = SubSeq(@, 1, Len(@) - 1)]
           ELSE \E dependency \in top.todo :
                    tr' = traverse_enter([tr EXCEPT !.stack[Len(tr.stack)].todo = @ \ {dependency}],
                                         dependency, Len(tr.stack))
    /\ UNCHANGED notTraverse

\* The outermost call returns visited.
TraverseReturn ==
    /\ tr.state = "traversing"
    /\ tr.stack = <<>>
    /\ tr' = [tr EXCEPT !.state = "returned"]
    /\ UNCHANGED notTraverse

TRNext == TraverseRegister \/ TraverseStart \/ TraverseStep \/ TraverseReturn

----------------------------------------------------------------------------
\* fda.importer.resolver: ImportResolver.collect_imports and the
\* ImportCollector visitor over the syntax tree of one module.  A node
\* records the field of its parent that holds it; a statement stands on a
\* line of its own, so its lineno is its position in the tree.

\* Statements of the module besides the Module node itself.
MaxImportNodes == 4

\* The largest level of a relative import.
MaxLevel == 1

\* Dotted module names and paths are the sequences of their parts.
CurrentModulePath == <<"/", "pkg">>

NoModuleName == <<>>

SyntaxNode(type, parent, field, names, module, level, handler_type) ==
    [type |-> type, parent |-> parent, field |-> field, names |-> names,
     module |-> module, level |-> level, handler_type |-> handler_type]

\* The fields of a node that hold statements, in the order of _fields.
StatementFields(type) ==
    CASE type = "Module" -> <<"body">>
      [] type = "If" -> <<"body", "orelse">>
      [] type = "Try" -> <<"body", "handlers", "orelse", "finalbody">>
      [] type = "ExceptHandler" -> <<"body">>
      [] OTHER -> <<>>

\* import a / import a, b / from m import x / from .m import x /
\* from m import * / if / try / except, except E, except (E, F)
SyntaxStatements ==
    {SyntaxNode("Import", 0, "body", names, NoModuleName, 0, "") :
        names \in {<<"a">>, <<"a", "b">>}}
    \cup {SyntaxNode("ImportFrom", 0, "body", <<"x">>, <<"m">>, level, "") : level \in 0..MaxLevel}
    \cup {SyntaxNode("ImportFrom", 0, "body", <<"*">>, <<"m">>, 0, "")}
    \cup {SyntaxNode(type, 0, "body", <<>>, NoModuleName, 0, "") : type \in {"If", "Try"}}

ExceptHandlers ==
    {SyntaxNode("ExceptHandler", 0, "handlers", <<>>, NoModuleName, 0, handler_type) :
        handler_type \in {"None", "Name", "Tuple"}}

\* The nodes held by a field of node n, in source order.
field_nodes(t, n, field) ==
    SelectSeq([i \in 1..Len(t) |-> i], LAMBDA i : t[i].parent = n /\ t[i].field = field)

RECURSIVE fields_nodes(_, _, _)
fields_nodes(t, n, fields) ==
    IF fields = <<>> THEN <<>>
    ELSE field_nodes(t, n, Head(fields)) \o fields_nodes(t, n, Tail(fields))

\* ast.iter_child_nodes
iter_child_nodes(t, n) == fields_nodes(t, n, StatementFields(t[n].type))

\* ImportCondition, and None.
NoCondition == [is_none |-> TRUE, branch_type |-> "", exception_types |-> <<>>]
ImportCondition(branch_type, exception_types) ==
    [is_none |-> FALSE, branch_type |-> branch_type, exception_types |-> exception_types]

ImportStatement(target, items, is_wildcard, condition, lineno) ==
    [target_module |-> target, items |-> items, is_wildcard |-> is_wildcard,
     condition |-> condition, lineno |-> lineno]

\* ImportResolver.resolve_relative_import; <<"None">> for None, a module
\* name otherwise.
resolve_relative_import(level, module_name, from_path) ==
    IF level > Len(from_path) THEN <<"None">>
    ELSE LET base_parts == IF level > 0 THEN SubSeq(from_path, 1, Len(from_path) - level)
                           ELSE from_path
         IN  IF module_name # NoModuleName THEN base_parts \o module_name ELSE base_parts

\* The state of an ImportCollector.
NewImportCollector == [imports |-> <<>>, current_condition |-> NoCondition]

\* ImportCollector.visit_Import
RECURSIVE import_aliases(_, _, _, _)
import_aliases(t, st, node, names) ==
    IF names = <<>> THEN st
    ELSE import_aliases(
            t,
            [st EXCEPT !.imports = Append(@, ImportStatement(<<Head(names)>>, <<Head(names)>>,
                                                            FALSE, st.current_condition, node))],
            node, Tail(names))

visit_Import(t, st, node) == import_aliases(t, st, node, t[node].names)

\* ImportCollector.visit_ImportFrom
visit_ImportFrom(t, st, node) ==
    LET resolved == resolve_relative_import(t[node].level, t[node].module, CurrentModulePath)
        module_name == IF t[node].level > 0 /\ CurrentModulePath # <<>>
                          /\ resolved \notin {<<"None">>, <<>>}
                       THEN resolved ELSE t[node].module
        is_wildcard == \E i \in DOMAIN t[node].names : t[node].names[i] = "*"
    IN  [st EXCEPT !.imports =
            Append(@, ImportStatement(module_name,
                                      IF is_wildcard THEN <<>> ELSE t[node].names,
                                      is_wildcard, st.current_condition, node))]

\* exc_types of a handler
exception_types(handler) ==
    CASE handler.handler_type = "Name" -> <<"ImportError">>
      [] handler.handler_type = "Tuple" -> <<"ImportError", "OSError">>
      [] OTHER -> <<>>

\* NodeVisitor.visit with generic_visit, ImportCollector.visit_Try and its
\* loops.
RECURSIVE import_visit(_, _, _), import_visit_all(_, _, _), visit_handlers(_, _, _), visit_Try(_, _, _)
import_visit(t, st, node) ==
    CASE t[node].type = "Import" -> visit_Import(t, st, node)
      [] t[node].type = "ImportFrom" -> visit_ImportFrom(t, st, node)
      [] t[node].type = "Try" -> visit_Try(t, st, node)
      [] OTHER -> import_visit_all(t, st, iter_child_nodes(t, node))

import_visit_all(t, st, nodes) ==
    IF nodes = <<>> THEN st
    ELSE import_visit_all(t, import_visit(t, st, Head(nodes)), Tail(nodes))

visit_handlers(t, st, handlers) ==
    IF handlers = <<>> THEN st
    ELSE LET handler == Head(handlers)
             entered == [st EXCEPT !.current_condition =
                            ImportCondition("except", exception_types(t[handler]))]
         IN  visit_handlers(t, import_visit_all(t, entered, field_nodes(t, handler, "body")),
                            Tail(handlers))

visit_Try(t, st, node) ==
    LET old_condition == st.current_condition
        in_body == import_visit_all(
                      t, [st EXCEPT !.current_condition = ImportCondition("try", <<>>)],
                      field_nodes(t, node, "body"))
        in_handlers == visit_handlers(t, in_body, field_nodes(t, node, "handlers"))
        orelse == field_nodes(t, node, "orelse")
        in_orelse == IF orelse # <<>>
                     THEN import_visit_all(
                            t, [in_handlers EXCEPT !.current_condition = ImportCondition("else", <<>>)],
                            orelse)
                     ELSE in_handlers
    IN  [in_orelse EXCEPT !.current_condition = old_condition]

\* ImportResolver.collect_imports(ast_tree, current_module_path)
collect_imports(t) == import_visit(t, NewImportCollector, 1)

RECURSIVE SyntaxPath(_, _)
SyntaxPath(t, n) == IF n = 0 THEN {} ELSE {n} \cup SyntaxPath(t, t[n].parent)

\* What the parser can put below a node.
SyntaxChildren(t, p) ==
    IF t[p].type = "Try"
    THEN {[s EXCEPT !.parent = p, !.field = field] :
                s \in SyntaxStatements, field \in {"body", "orelse", "finalbody"}}
         \cup {[h EXCEPT !.parent = p] : h \in ExceptHandlers}
    ELSE IF t[p].type \in {"Module", "ExceptHandler"}
    THEN {[s EXCEPT !.parent = p] : s \in SyntaxStatements}
    ELSE IF t[p].type = "If"
    THEN {[s EXCEPT !.parent = p, !.field = field] :
                s \in SyntaxStatements, field \in {"body", "orelse"}}
    ELSE {}

NewImports ==
    [tree |-> <<SyntaxNode("Module", 0, "", <<>>, NoModuleName, 0, "")>>,
     imports |-> <<>>, current_condition |-> NoCondition, outcome |-> "new"]

IMIdle == im = NewImports
IMInit == im = NewImports

\* parse_python_file reads the next statement or handler of the file.
ParseStatement ==
    /\ im.outcome = "new"
    /\ Len(im.tree) <= MaxImportNodes
    /\ \E p \in SyntaxPath(im.tree, Len(im.tree)) : \E node \in SyntaxChildren(im.tree, p) :
            im' = [im EXCEPT !.tree = Append(@, node)]
    /\ UNCHANGED notImports

\* imports = self.import_resolver.collect_imports(tree, filepath.parent)
CollectImports ==
    /\ im.outcome = "new"
    /\ LET collector == collect_imports(im.tree)
       IN  im' = [im EXCEPT !.imports = collector.imports,
                            !.current_condition = collector.current_condition,
                            !.outcome = "returned"]
    /\ UNCHANGED notImports

IMNext == ParseStatement \/ CollectImports

----------------------------------------------------------------------------
\* fda.importer.analyzer: ModuleAnalyzer.analyze_project on a project of
\* module files.  File k is the origin importlib finds for the import
\* name k; a name beyond the files of the project resolves to nothing
\* internal.

\* The most files of a project whose analysis raises.
MaxBroken == 1

\* Attempts to analyse one file are counted up to this number.
MaxAttempts == 2

ModuleFile(imports, broken) == [imports |-> imports, broken |-> broken]

\* resolve_module_spec(name) with a spec, an origin and
\* config.is_internal_module(origin): the file of the name, 0 otherwise.
internal_origin(files, name) == IF name \in 1..Len(files) THEN name ELSE 0

\* ModuleAnalyzer._filepath_to_module_name: the import name of the file
\* when the project root is the root of the imports, a longer dotted name
\* (which no import statement of the project uses) when the packages lie
\* in a directory below the project root.
filepath_to_module_name(layout, file) == IF layout = "flat" THEN file ELSE file + MaxFqns

\* ModuleAnalyzer.analyze_module(filepath): raises before anything is
\* registered, or registers the module under the name of its path and marks
\* the imports pending.
count_attempt(a, file) ==
    [a EXCEPT !.attempts[file] = IF @ < MaxAttempts THEN @ + 1 ELSE @]

analyze_module_file(a, file) ==
    LET counted == IF file \in DOMAIN a.attempts THEN count_attempt(a, file) ELSE a
    IN  IF a.files[file].broken THEN [counted EXCEPT !.raised = TRUE]
        ELSE LET registered == [counted EXCEPT
                                    !.modules = @ \cup {filepath_to_module_name(a.layout, file)},
                                    !.raised = FALSE]
                 marked == {target \in a.files[file].imports :
                                /\ target \notin registered.modules
                                /\ internal_origin(a.files, target) # 0
                                /\ target \notin registered.pending}
             IN  [registered EXCEPT !.pending = @ \cup marked]

NewProjectAnalyzer ==
    [files |-> <<>>, layout |-> "flat", state |-> "new", modules |-> {}, pending |-> {},
     todo |-> {}, attempts |-> [f \in Fqns |-> 0], raised |-> FALSE]

PAIdle == pa = NewProjectAnalyzer
PAInit == pa = NewProjectAnalyzer

import_count(files) ==
    Cardinality({e \in (1..Len(files)) \X Fqns : e[2] \in files[e[1]].imports})

\* One more module file of the project is written.
WriteModule ==
    /\ pa.state = "new"
    /\ Len(pa.files) < MaxFqns
    /\ \E imports \in ImportSets, broken \in BOOLEAN :
        /\ import_count(pa.files) + Cardinality(imports) <= MaxEdges
        /\ Cardinality({k \in 1..Len(pa.files) : pa.files[k].broken})
                + (IF broken THEN 1 ELSE 0) <= MaxBroken
        /\ pa' = [pa EXCEPT !.files = Append(@, ModuleFile(imports, broken))]
    /\ UNCHANGED notProject

\* analyze_project(entry_point) up to the loop: the first file is the
\* entry point; its analysis is not guarded, so its exception leaves
\* analyze_project.
AnalyzeEntry ==
    /\ pa.state = "new"
    /\ pa.files # <<>>
    /\ \E layout \in {"flat", "src"} :
        LET analysed == analyze_module_file([pa EXCEPT !.layout = layout], 1)
        IN  pa' = [analysed EXCEPT !.state = IF analysed.raised THEN "raised" ELSE "while"]
    /\ UNCHANGED notProject

\* pending = list(self.registry.pending); break and return when empty.
TakePending ==
    /\ pa.state = "while"
    /\ pa' = [pa EXCEPT !.todo = pa.pending,
                        !.state = IF pa.pending = {} THEN "returned" ELSE "for"]
    /\ UNCHANGED notProject

\* One turn of `for module_fqn in pending`, in the order of the set.
AnalyzePending ==
    /\ pa.state = "for"
    /\ \E module_fqn \in pa.todo :
        LET unmarked == [pa EXCEPT !.pending = @ \ {module_fqn}, !.todo = @ \ {module_fqn}]
            spec_origin == internal_origin(pa.files, module_fqn)
            analysed == IF spec_origin # 0
                        THEN [analyze_module_file(unmarked, spec_origin) EXCEPT !.raised = FALSE]
                        ELSE unmarked
        IN  pa' = [analysed EXCEPT !.state = IF analysed.todo = {} THEN "while" ELSE "for"]
    /\ UNCHANGED notProject

PANext == WriteModule \/ AnalyzeEntry \/ TakePending \/ AnalyzePending

----------------------------------------------------------------------------
(***************************************************************************)
(* Specifications.                                                         *)
(***************************************************************************)

ScopeSpecInit == ScopeInit /\ BGIdle /\ RegIdle /\ DGIdle /\ CDIdle /\ RSIdle /\ ForestIdle /\ SCIdle /\ SBIdle /\ SAIdle /\ MGIdle /\ ICIdle /\ ACIdle /\ TRIdle /\ IMIdle /\ PAIdle
SpecScope == ScopeSpecInit /\ [][ScopeNext]_vars

BaseGraphSpecInit == BGInit /\ ScopeIdle /\ RegIdle /\ DGIdle /\ CDIdle /\ RSIdle /\ ForestIdle /\ SCIdle /\ SBIdle /\ SAIdle /\ MGIdle /\ ICIdle /\ ACIdle /\ TRIdle /\ IMIdle /\ PAIdle
SpecBaseGraph == BaseGraphSpecInit /\ [][BGNext]_vars

RegistrySpecInit == RegInit /\ ScopeIdle /\ BGIdle /\ DGIdle /\ CDIdle /\ RSIdle /\ ForestIdle /\ SCIdle /\ SBIdle /\ SAIdle /\ MGIdle /\ ICIdle /\ ACIdle /\ TRIdle /\ IMIdle /\ PAIdle
SpecRegistry == RegistrySpecInit /\ [][RegNext]_vars

DepGraphSpecInit == DGInit /\ ScopeIdle /\ BGIdle /\ RegIdle /\ CDIdle /\ RSIdle /\ ForestIdle /\ SCIdle /\ SBIdle /\ SAIdle /\ MGIdle /\ ICIdle /\ ACIdle /\ TRIdle /\ IMIdle /\ PAIdle
SpecDepGraph == DepGraphSpecInit /\ [][DGNext]_vars

CycleSpecInit == CDInit /\ ScopeIdle /\ BGIdle /\ RegIdle /\ DGIdle /\ RSIdle /\ ForestIdle /\ SCIdle /\ SBIdle /\ SAIdle /\ MGIdle /\ ICIdle /\ ACIdle /\ TRIdle /\ IMIdle /\ PAIdle
SpecCycle == CycleSpecInit /\ [][CDNext]_vars

ResolverSpecInit == RSInit /\ ScopeIdle /\ BGIdle /\ RegIdle /\ DGIdle /\ CDIdle /\ ForestIdle /\ SCIdle /\ SBIdle /\ SAIdle /\ MGIdle /\ ICIdle /\ ACIdle /\ TRIdle /\ IMIdle /\ PAIdle
SpecResolver == ResolverSpecInit /\ [][RSNext]_vars

CollectorSpecInit == SCInit /\ ScopeIdle /\ BGIdle /\ RegIdle /\ DGIdle /\ CDIdle /\ RSIdle /\ SBIdle /\ SAIdle /\ MGIdle /\ ICIdle /\ ACIdle /\ TRIdle /\ IMIdle /\ PAIdle
SpecCollector == CollectorSpecInit /\ [][SCNext]_vars

TargetsSpecInit == TargetsInit /\ ScopeIdle /\ BGIdle /\ RegIdle /\ DGIdle /\ CDIdle /\ RSIdle /\ SBIdle /\ SAIdle /\ MGIdle /\ ICIdle /\ ACIdle /\ TRIdle /\ IMIdle /\ PAIdle
SpecTargets == TargetsSpecInit /\ [][TargetsNext]_vars

BuilderSpecInit == SBInit /\ ScopeIdle /\ BGIdle /\ RegIdle /\ DGIdle /\ CDIdle /\ RSIdle /\ SCIdle /\ SAIdle /\ MGIdle /\ ICIdle /\ ACIdle /\ TRIdle /\ IMIdle /\ PAIdle
SpecBuilder == BuilderSpecInit /\ [][SBNext]_vars

AnalyzerSpecInit == SAInit /\ ScopeIdle /\ BGIdle /\ RegIdle /\ DGIdle /\ CDIdle /\ RSIdle /\ SCIdle /\ SBIdle /\ MGIdle /\ ICIdle /\ ACIdle /\ TRIdle /\ IMIdle /\ PAIdle
SpecAnalyzer == AnalyzerSpecInit /\ [][SANext]_vars

MainGuardSpecInit == MGInit /\ ScopeIdle /\ BGIdle /\ RegIdle /\ DGIdle /\ CDIdle /\ RSIdle /\ ForestIdle /\ SCIdle /\ SBIdle /\ SAIdle /\ ICIdle /\ ACIdle /\ TRIdle /\ IMIdle /\ PAIdle
SpecMainGuard == MainGuardSpecInit /\ [][MGNext]_vars

AnalyzerCallsSpecInit == ACInit /\ ScopeIdle /\ BGIdle /\ RegIdle /\ DGIdle /\ CDIdle /\ RSIdle /\ ForestIdle /\ SCIdle /\ SBIdle /\ SAIdle /\ MGIdle /\ ICIdle /\ TRIdle /\ IMIdle /\ PAIdle
SpecAnalyzerCalls == AnalyzerCallsSpecInit /\ [][ACNext]_vars

ProjectSpecInit == PAInit /\ ScopeIdle /\ BGIdle /\ RegIdle /\ DGIdle /\ CDIdle /\ RSIdle /\ ForestIdle /\ SCIdle /\ SBIdle /\ SAIdle /\ MGIdle /\ ICIdle /\ ACIdle /\ TRIdle /\ IMIdle
SpecProject == ProjectSpecInit /\ [][PANext]_vars

ImportsSpecInit == IMInit /\ ScopeIdle /\ BGIdle /\ RegIdle /\ DGIdle /\ CDIdle /\ RSIdle /\ ForestIdle /\ SCIdle /\ SBIdle /\ SAIdle /\ MGIdle /\ ICIdle /\ ACIdle /\ TRIdle /\ PAIdle
SpecImports == ImportsSpecInit /\ [][IMNext]_vars

TraverseSpecInit == TRInit /\ ScopeIdle /\ BGIdle /\ RegIdle /\ DGIdle /\ CDIdle /\ RSIdle /\ ForestIdle /\ SCIdle /\ SBIdle /\ SAIdle /\ MGIdle /\ ICIdle /\ ACIdle /\ IMIdle /\ PAIdle
SpecTraverse == TraverseSpecInit /\ [][TRNext]_vars

ClassifierSpecInit == ICInit /\ ScopeIdle /\ BGIdle /\ RegIdle /\ DGIdle /\ CDIdle /\ RSIdle /\ ForestIdle /\ SCIdle /\ SBIdle /\ SAIdle /\ MGIdle /\ ACIdle /\ TRIdle /\ IMIdle /\ PAIdle
SpecClassifier == ClassifierSpecInit /\ [][ICNext]_vars

----------------------------------------------------------------------------
\* C4: after any sequence of add_node and add_edge calls the graph has no
\* edge from a node to itself, at most one edge per ordered pair, and the
\* endpoints of every edge are nodes; add_edge(a, a) and add_edge(a, b) on
\* an existing edge leave the graph unchanged.
C4_GraphWellFormed ==
    \A a \in GraphNodes, b \in GraphNodes :
        /\ number_of_edges(bg, a, a) = 0
        /\ number_of_edges(bg, a, b) <= 1
        /\ has_edge(bg, a, b) => (has_node(bg, a) /\ has_node(bg, b))

C4_RejectedEdgeIsNoOp ==
    \A a \in GraphNodes, b \in GraphNodes :
        (BGAddEdge(a, b) /\ (a = b \/ has_edge(bg, a, b))) => UNCHANGED bg

C4_BaseGraphEdges == []C4_GraphWellFormed /\ [][C4_RejectedEdgeIsNoOp]_vars

\* Edges in both directions between two nodes, added through add_edge alone,
\* next to a node that was added without any edge.
C4_Witness ==
    \E a \in GraphNodes, b \in GraphNodes, c \in GraphNodes :
        /\ a # b
        /\ has_edge(bg, a, b) /\ has_edge(bg, b, a)
        /\ has_node(bg, c)
        /\ \A d \in GraphNodes : ~has_edge(bg, c, d) /\ ~has_edge(bg, d, c)
        /\ bg.graph_type = "MultiDiGraph"

\* Nodes of the import graph made for a module name, and edges between the
\* nodes of two names.
NodesOf(name) == {n \in reg.graph.nodes : n.name = name}

EdgesOf(from_name, to_name) ==
    {e \in DOMAIN reg.graph.edges : e[1].name = from_name /\ e[2].name = to_name}

\* Modules whose file has been analysed.
Analysed == {m \in ModuleNames : m \in reg.processed /\ project[m].scan}

\* C5: however many statements of a file, and however many files, import
\* the same target, the import graph has exactly one node for the target
\* and at most one edge per (importer, target) pair.
C5_OneNodeOneEdgePerTarget ==
    /\ \A name \in ModuleNames : Cardinality(NodesOf(name)) <= 1
    /\ \A m \in Analysed : \A t \in Range(project[m].stmts) :
          Cardinality(NodesOf(t)) = 1
    /\ \A a \in ModuleNames, b \in ModuleNames :
          /\ Cardinality(EdgesOf(a, b)) <= 1
          /\ \A e \in EdgesOf(a, b) : reg.graph.edges[e] = 1

\* The registry has finished; one file imports a target in two statements,
\* another file imports the same target, and both edges are in the graph.
C5_Witness ==
    /\ RegDone
    /\ \E m1 \in Analysed, m2 \in Analysed, t \in ModuleNames :
          /\ m1 # m2 /\ m1 # t /\ m2 # t
          /\ Cardinality({i \in DOMAIN project[m1].stmts : project[m1].stmts[i] = t}) = 2
          /\ t \in Range(project[m2].stmts)
          /\ EdgesOf(m1, t) # {} /\ EdgesOf(m2, t) # {}

\* The modules b reachable from a by one or more imports.
RECURSIVE ReachableFrom(_, _)
ReachableFrom(frontier, seen) ==
    LET next == UNION {dg.edges[m] : m \in frontier} \ seen
    IN  IF next = {} THEN seen ELSE ReachableFrom(next, seen \cup next)

Imports(a) == ReachableFrom({a}, {})

HasCycle == \E a \in Fqns : a \in Imports(a)

FoundCycles == run.op = "find_cycles" /\ run.done
Sorted == run.op = "topological_sort" /\ run.done

\* The step in which find_cycles reports a cycle.
C6_ReportIsPathSlice ==
    run'.cycles # run.cycles =>
        /\ run.stack # <<>>
        /\ LET current == run.stack[Len(run.stack)].node
           IN  /\ run.path[Len(run.path)] = current
               /\ \E n \in dg.edges[current] :
                     /\ n \in run.rec_stack
                     /\ \E i \in 1..Len(run.path) :
                           /\ run.path[i] = n
                           /\ \A j \in 1..(i - 1) : run.path[j] # n
                           /\ run'.cycles =
                                Append(run.cycles,
                                       [k \in 1..(Len(run.path) - i + 2) |->
                                           IF k <= Len(run.path) - i + 1
                                           THEN run.path[i + k - 1] ELSE n])

C6_Examples ==
    FoundCycles =>
        /\ \A b \in Fqns, c \in Fqns :
              (/\ dg.nodes = <<1, 2, 3>> /\ {b, c} = {2, 3}
               /\ dg.edges[1] = {b} /\ dg.edges[b] = {c} /\ dg.edges[c] = {1})
              => run.cycles = << <<1, b, c, 1>> >>
        /\ (dg.nodes = <<1>> /\ dg.edges[1] = {1})
              => run.cycles = << <<1, 1>> >>
        /\ (dg.nodes = <<1, 2>> /\ dg.edges[1] = {2} /\ dg.edges[2] = {1})
              => (Len(run.cycles) = 1 /\ {1, 2} \subseteq Range(run.cycles[1]))

\* C6: for a back-edge from the node being explored to a node n on the DFS
\* path, find_cycles reports the slice of the path from n's first
\* occurrence to the current node, followed by n; a -> b -> c -> a gives
\* exactly [a, b, c, a], a -> a gives [a, a], and two modules importing each
\* other give one cycle containing both.
C6_ReportedCycle == [][C6_ReportIsPathSlice]_vars /\ []C6_Examples

\* find_cycles has returned [a, b, c, a] for the three modules importing
\* each other in a ring.
C6_Witness ==
    /\ FoundCycles
    /\ dg.nodes = <<1, 2, 3>>
    /\ dg.edges[1] = {2} /\ dg.edges[2] = {3} /\ dg.edges[3] = {1}
    /\ run.cycles = << <<1, 2, 3, 1>> >>

\* C7: on an acyclic graph find_cycles returns the empty list and
\* topological_sort returns every registered module exactly once, each
\* importer before every registered module it imports; on a graph with a
\* directed cycle find_cycles returns a non-empty list.
C7_AcyclicSortedCyclicReported ==
    /\ FoundCycles => (run.cycles = <<>> <=> ~HasCycle)
    /\ (Sorted /\ ~HasCycle) =>
          /\ Len(run.sorted_nodes) = Len(dg.nodes)
          /\ Range(run.sorted_nodes) = Range(dg.nodes)
          /\ \A i, j \in 1..Len(run.sorted_nodes) :
                run.sorted_nodes[j] \in dg.edges[run.sorted_nodes[i]] => i < j

\* topological_sort has returned for a -> b -> c registered in the order
\* c, b, a, so the result reverses the registration order.
C7_Witness ==
    /\ Sorted
    /\ dg.nodes = <<1, 2, 3>>
    /\ dg.edges[3] = {2} /\ dg.edges[2] = {1} /\ dg.edges[1] = {}
    /\ run.sorted_nodes = <<3, 2, 1>>

\* The last call was check_cycle with a next_origin found in current_path.
CycleGiven ==
    /\ cd.last.op = "check_cycle"
    /\ cd.last.next_origin # NoOrigin
    /\ cd.last.next_origin \in Range(cd.last.current_path)

C8_CheckCycleResult ==
    (cd.ignore_cycles /\ cd.last.op = "check_cycle") =>
        /\ cd.last.outcome \in {"True", "False"}
        /\ cd.last.outcome = "True" <=> CycleGiven
        /\ CycleGiven =>
              /\ cd.cycle_detected
              /\ cd.cycle_path = cd.last.current_path \o <<cd.last.next_origin>>
        /\ ~cd.cycle_detected => cd.cycle_path = <<>>

C8_MissKeepsRecord ==
    (cd.ignore_cycles /\ cd'.last.op = "check_cycle" /\ cd'.last.outcome = "False")
        => (cd'.cycle_detected = cd.cycle_detected /\ cd'.cycle_path = cd.cycle_path)

C9_SwitchDecides ==
    /\ cd.config = "default" => ~cd.ignore_cycles
    /\ CycleGiven =>
          IF cd.ignore_cycles
          THEN cd.last.outcome = "True" /\ cd.last.logged /\ cd.cycle_detected
          ELSE cd.last.outcome = "PDADependencyCycleError"
    /\ cd.last.outcome = "PDADependencyCycleError" => (CycleGiven /\ ~cd.ignore_cycles)

\* A detector built from the default configuration has raised on a cycle.
C9_Witness ==
    /\ cd.config = "default"
    /\ CycleGiven
    /\ cd.last.outcome = "PDADependencyCycleError"

\* The last call was a resolution miss: no spec, or a spec from which no
\* module could be built.
ResolutionMiss == rs.called /\ (~rs.spec_found \/ rs.from_spec \in CaughtErrors)

----------------------------------------------------------------------------
\* The scope a node belongs to: its nearest enclosing scope-defining node,
\* 0 for a root.
RECURSIVE EnclosingScope(_, _)
EnclosingScope(f, n) ==
    IF f[n].parent = 0 THEN 0
    ELSE IF f[f[n].parent].type \in ScopeDefining THEN f[n].parent
    ELSE EnclosingScope(f, f[n].parent)

\* The names a target binds: the bare names reached through tuples and lists.
RECURSIVE TargetNames(_)
TargetNames(target) ==
    CASE target.kind = "Name" -> {target.id}
      [] target.kind \in {"Tuple", "List"} ->
            UNION {TargetNames(target.elts[i]) : i \in DOMAIN target.elts}
      [] OTHER -> {}

\* The names a match pattern captures.
RECURSIVE PatternNames(_)
PatternNames(pattern) ==
    (IF pattern.id # "" THEN {pattern.id} ELSE {})
    \cup UNION {PatternNames(pattern.elts[i]) : i \in DOMAIN pattern.elts}

\* The names the statement at node n binds in the scope it belongs to.
BoundAt(f, n) ==
    CASE f[n].type \in {"Assign", "AugAssign", "AnnAssign", "For", "AsyncFor", "With",
                        "AsyncWith", "NamedExpr"} ->
            UNION {TargetNames(f[n].targets[i]) : i \in DOMAIN f[n].targets}
      [] f[n].type = "ExceptHandler" -> IF f[n].name # "" THEN {f[n].name} ELSE {}
      [] f[n].type = "match_case" ->
            UNION {PatternNames(f[n].targets[i]) : i \in DOMAIN f[n].targets}
      [] OTHER -> {}

\* The statements of scope S that bind name, by their place in the source.
BindingsOf(f, S, name) ==
    {n \in NodeIds(f) : EnclosingScope(f, n) = S /\ name \in BoundAt(f, n)}

LastOf(ns) == CHOOSE n \in ns : \A m \in ns : m <= n

\* C11: for any sequence of bindings of the same name in the same scope,
\* the collector's table of the scope holds one Symbol for the name, the one
\* created by the binding that comes last in source order.
C11_LastBindingInSourceOrder ==
    sc.outcome = "returned" =>
        \A S \in DOMAIN sc.symbols_by_node :
            \A name \in {"a"} :
                BindingsOf(forest, S, name) # {} =>
                    /\ name \in DOMAIN sc.symbols_by_node[S]
                    /\ sc.symbols_by_node[S][name].node
                        = DefNode(LastOf(BindingsOf(forest, S, name)), "")

\* The names bound by the statements that belong to scope S.
BoundIn(f, S) == UNION {BoundAt(f, n) : n \in {m \in NodeIds(f) : EnclosingScope(f, m) = S}}

\* def f(): a, (b, c) = f()
NestedUnpack ==
    <<AstNode("Module", 0, "", <<>>, NoArguments, 1),
      AstNode("FunctionDef", 1, "f", <<>>, NoArguments, 0),
      AstNode("Assign", 2, "",
              <<Target("Tuple", "", <<Name("a"), Target("Tuple", "", <<Name("b"), Name("c")>>)>>)>>,
              NoArguments, 0)>>

\* C12: the target of an assignment, a loop or a with item is destructured
\* recursively: the table of the scope that owns the statement holds exactly
\* the bare names reached through nested tuples and lists, each defined by
\* the statement, and attribute and subscript targets bind nothing;
\* `a, (b, c) = f()` in a function without parameters gives the function's
\* table a, b and c and the module's table nothing.
C12_TargetsDestructured ==
    sc.outcome = "returned" =>
        /\ \A S \in DOMAIN sc.symbols_by_node :
                /\ DOMAIN sc.symbols_by_node[S] = BoundIn(forest, S)
                /\ \A name \in DOMAIN sc.symbols_by_node[S] :
                        /\ sc.symbols_by_node[S][name].node.at \in BindingsOf(forest, S, name)
                        /\ sc.symbols_by_node[S][name].node.arg = ""
        /\ \A n \in NodeIds(forest) :
                forest[n].type \in TargetStatements =>
                    EnclosingScope(forest, n) \in DOMAIN sc.symbols_by_node
        /\ forest = NestedUnpack =>
                /\ DOMAIN sc.symbols_by_node = {1, 2}
                /\ DOMAIN sc.symbols_by_node[2] = {"a", "b", "c"}
                /\ DOMAIN sc.symbols_by_node[1] = {}

C12_Witness == forest = NestedUnpack /\ sc.outcome = "returned"

\* The parameter names of a function node.
Parameters(args) ==
    {args.posonlyargs[i] : i \in DOMAIN args.posonlyargs}
    \cup {args.args[i] : i \in DOMAIN args.args}
    \cup {args.kwonlyargs[i] : i \in DOMAIN args.kwonlyargs}
    \cup ({args.vararg, args.kwarg} \ {""})

\* C13: for every function or class definition the collector binds the
\* name of the definition in the table of the enclosing scope, and every
\* parameter of a function in the table of the function's own scope.
C13_DefinitionsAndParametersBound ==
    sc.outcome = "returned" =>
        \A n \in NodeIds(forest) :
            /\ forest[n].type \in {"FunctionDef", "AsyncFunctionDef", "ClassDef"}
            /\ EnclosingScope(forest, n) \in DOMAIN sc.symbols_by_node
            => /\ forest[n].name \in DOMAIN sc.symbols_by_node[EnclosingScope(forest, n)]
               /\ forest[n].type # "ClassDef" =>
                    /\ n \in DOMAIN sc.symbols_by_node
                    /\ Parameters(forest[n].args) \subseteq DOMAIN sc.symbols_by_node[n]

\* The position of the one `if` among the ancestors of the classified
\* import, when there is exactly one.
OnlyIf(k) ==
    /\ ic.op = "determine_scope"
    /\ k \in 1..Len(ic.path)
    /\ \A j \in 1..Len(ic.path) : ic.path[j].type = "If" <=> j = k

Classified(flags) == ic.outcome = "returned" /\ flags \subseteq ic.scope

\* C14: an import placed directly in the body of `if TYPE_CHECKING:` is
\* classified with IF and TYPE_CHECKING; one placed directly in the
\* else-branch of `if not TYPE_CHECKING:` with ELSE and TYPE_CHECKING; an
\* import in the plain `else:` of `if TYPE_CHECKING:` or in the body of
\* `if TYPE_CHECKING or x:` does not get TYPE_CHECKING.
C14_TypeCheckingBranches ==
    \A k \in 1..Len(ic.path) :
        OnlyIf(k) =>
            LET test == ic.path[k].test
                block == ic.path[k].block
            IN  /\ (k = 1 /\ test = TypeCheckingName /\ block = "body")
                        => Classified({"IF", "TYPE_CHECKING"})
                /\ (k = 1 /\ test = UnaryOp("Not", TypeCheckingName) /\ block = "orelse")
                        => Classified({"ELSE", "TYPE_CHECKING"})
                /\ (test = TypeCheckingName /\ block = "orelse")
                        => "TYPE_CHECKING" \notin ic.scope
                /\ (test = BoolOp("Or", <<TypeCheckingName, SomeCondition>>) /\ block = "body")
                        => "TYPE_CHECKING" \notin ic.scope

\* C15: an import in the then-branch of `if __name__ == "__main__":` is
\* classified with IF and MAIN, the swapped test `"__main__" == __name__`
\* gives the same flags, and under a negated test (`!=`, `not ... == ...`)
\* the then-branch is not flagged MAIN.
C15_MainBranches ==
    \A k \in 1..Len(ic.path) :
        (OnlyIf(k) /\ ic.path[k].block = "body") =>
            LET test == ic.path[k].test
            IN  /\ test = Compare(DunderName, <<"Eq">>, <<MainString>>)
                        => Classified({"IF", "MAIN"})
                /\ test = Compare(MainString, <<"Eq">>, <<DunderName>>)
                        => Classified({"IF", "MAIN"})
                /\ test \in {Compare(DunderName, <<"NotEq">>, <<MainString>>),
                             UnaryOp("Not", Compare(DunderName, <<"Eq">>, <<MainString>>))}
                        => "MAIN" \notin ic.scope

\* C16: is_main_guard_only(if_node, in_else_branch=False) is True exactly
\* when the test is an equality of __name__ with "__main__" in either
\* operand order, or an `and` chain with such an equality as a direct
\* conjunct, and False for `!=`, `not ...` and every `or` chain; with
\* in_else_branch=True it is True exactly when some test along the if/elif
\* chain starting at if_node is a negated main guard (`!=` or `not ==`) or an
\* `or` chain containing one.
MainEquality(e, op) ==
    /\ e.kind = "Compare"
    /\ e.ops = <<op>>
    /\ e.operands \in {<<DunderName, MainString>>, <<MainString, DunderName>>}

NegatedMainGuard(e) ==
    \/ MainEquality(e, "NotEq")
    \/ e.kind = "UnaryOp" /\ e.ops = <<"Not">> /\ MainEquality(e.operands[1], "Eq")

Chain(e, op) == e.kind = "BoolOp" /\ e.ops = <<op>>

RECURSIVE ElifTests(_)
ElifTests(if_node) ==
    {if_node.test} \cup
        (IF Len(if_node.orelse) = 1 /\ if_node.orelse[1].type = "If"
         THEN ElifTests(if_node.orelse[1])
         ELSE {})

C16_MainGuardOnly ==
    mg.call.called =>
        LET test == mg.if_node.test
        IN  IF mg.call.in_else_branch
            THEN mg.call.returned <=>
                    \E t \in ElifTests(mg.if_node) :
                        \/ NegatedMainGuard(t)
                        \/ Chain(t, "Or") /\ \E i \in 1..Len(t.operands) : NegatedMainGuard(t.operands[i])
            ELSE /\ mg.call.returned <=>
                        \/ MainEquality(test, "Eq")
                        \/ Chain(test, "And") /\ \E i \in 1..Len(test.operands) : MainEquality(test.operands[i], "Eq")
                 /\ (MainEquality(test, "NotEq") \/ test.kind = "UnaryOp" \/ Chain(test, "Or"))
                        => ~mg.call.returned

\* The swapped guard in an `and` chain is recognised in the then-branch.
C16_Witness ==
    /\ mg.call.called /\ ~mg.call.in_else_branch /\ mg.call.returned
    /\ mg.if_node.test = BoolOp("And", <<SomeCondition, Compare(MainString, <<"Eq">>, <<DunderName>>)>>)

\* The scope type the builder gives to a scope-defining node.
ScopeTypeOf(type) ==
    CASE type = "Module" -> MODULE_T
      [] type = "ClassDef" -> CLASS_T
      [] type \in {"FunctionDef", "AsyncFunctionDef"} -> FUNCTION_T
      [] type = "Lambda" -> LAMBDA_T
      [] OTHER -> COMPREHENSION_T

\* C17: in every scope forest the builder returns, a Module scope has no
\* parent and is a root; a Class, Function, Lambda or Comprehension scope
\* has one parent, the scope of the nearest enclosing scope-defining node;
\* every other node is mapped to the defining node of its nearest enclosing
\* scope, so the siblings that follow a nested scope belong to the outer
\* scope again.
C17_ScopeForestShape ==
    sb.outcome = "returned" =>
        /\ \A s \in DOMAIN sb.scopes :
            LET scope == sb.scopes[s]
            IN  /\ forest[scope.node].type \in ScopeDefining
                /\ scope.scope_type = ScopeTypeOf(forest[scope.node].type)
                /\ IF scope.scope_type = MODULE_T
                   THEN scope.parent = 0 /\ s \in sb.returned
                   ELSE /\ scope.parent \in DOMAIN sb.scopes
                        /\ s \notin sb.returned
                        /\ sb.scopes[scope.parent].node = EnclosingScope(forest, scope.node)
        /\ \A n \in NodeIds(sb.given) :
            /\ n \in DOMAIN sb.node_to_scope_node
            /\ forest[n].type \notin ScopeDefining =>
                    sb.node_to_scope_node[n] = EnclosingScope(forest, n)
            /\ n \in DOMAIN sb.node_to_scope
            /\ sb.scopes[sb.node_to_scope[n]].node
                = IF forest[n].type \in ScopeDefining THEN n ELSE EnclosingScope(forest, n)

\* def f(): a = 1, followed by a = 1 at module level.
C17_Witness ==
    /\ sb.outcome = "returned"
    /\ Len(sb.given) = 4
    /\ forest[2].type = "FunctionDef" /\ forest[3].parent = 2
    /\ forest[4].type = "Assign" /\ forest[4].parent = 1
    /\ sb.node_to_scope_node[3] = 2
    /\ sb.node_to_scope_node[4] = 1

\* C18: for every scope S of the assembled forest and every name in its
\* symbol table, the binding that produced the Symbol lies in the body of S
\* (or is a parameter of S) and not inside a scope-defining node nested in
\* S; the table of the final scope of a defining node is the collector's
\* table for that node, empty where the collector has none.
C18_TablesHoldOwnBindings ==
    sa.outcome = "returned" =>
        /\ DOMAIN sa.symbols_by_scope = DOMAIN sa.scopes
        /\ \A s \in DOMAIN sa.scopes :
            LET S == sa.scopes[s].node
            IN  /\ sa.symbols_by_scope[s] = sa.scopes[s].symbols
                /\ sa.scopes[s].symbols
                    = IF S \in DOMAIN sa.collected THEN sa.collected[S] ELSE NoSymbols
                /\ \A name \in DOMAIN sa.scopes[s].symbols :
                    LET def == sa.scopes[s].symbols[name].node
                    IN  \/ EnclosingScope(forest, def.at) = S
                        \/ def.at = S /\ def.arg # ""
        /\ \A S \in DOMAIN sa.collected : \E s \in DOMAIN sa.scopes : sa.scopes[s].node = S

\* def f(): a = 1 with a = 1 at module level too: each table holds its own a.
C18_Witness ==
    /\ sa.outcome = "returned"
    /\ \E s, t \in DOMAIN sa.scopes :
        /\ sa.scopes[t].parent = s
        /\ "a" \in DOMAIN sa.scopes[s].symbols
        /\ "a" \in DOMAIN sa.scopes[t].symbols
        /\ sa.scopes[s].symbols["a"] # sa.scopes[t].symbols["a"]

\* C19: ImportScope.validate() fails exactly when TYPE_CHECKING or MAIN is
\* set without IF or ELSE, DEFAULT without CASE, or DECORATOR without
\* FUNCTION, and every flag set the classifier returns passes it.
Requires(scope, flag, others) == flag \in scope => scope \cap others # {}

WellFormed(scope) ==
    /\ Requires(scope, "TYPE_CHECKING", {"IF", "ELSE"})
    /\ Requires(scope, "MAIN", {"IF", "ELSE"})
    /\ Requires(scope, "DEFAULT", {"CASE"})
    /\ Requires(scope, "DECORATOR", {"FUNCTION"})

C19_ValidatedScopes ==
    /\ ic.op = "validate" => (ic.outcome = "ValueError" <=> ~WellFormed(ic.scope))
    /\ (ic.op = "determine_scope" /\ ic.outcome = "returned") => WellFormed(ic.scope)

\* The classifier returns a flag set with a flag that requires another.
C19_Witness ==
    /\ ic.op = "determine_scope" /\ ic.outcome = "returned"
    /\ "TYPE_CHECKING" \in ic.scope /\ "ELSE" \in ic.scope /\ "IF" \notin ic.scope

\* C20: on each invocation of the builder on a forest, a module root whose
\* origin the forest cannot report raises PDAMissingScopeOriginError, a
\* forest that yields no Module scope raises PDAEmptyScopeError, and
\* otherwise the returned forest has exactly one Module scope per root of
\* the given forest, seeded with the origin of that root.
C20_OneModuleScopePerRoot ==
    sb.calls > 0 =>
        IF \E r \in roots(sb.given) : get_origin(sb.given, r) = 0
        THEN sb.outcome = "PDAMissingScopeOriginError"
        ELSE IF roots(sb.given) = {}
        THEN sb.outcome = "PDAEmptyScopeError"
        ELSE /\ sb.outcome = "returned"
             /\ Cardinality(sb.returned) = Cardinality(roots(sb.given))
             /\ \A r \in roots(sb.given) :
                    \E s \in sb.returned :
                        /\ sb.scopes[s].scope_type = MODULE_T
                        /\ sb.scopes[s].node = r
                        /\ sb.scopes[s].origin = get_origin(sb.given, r)

\* C21: a call without files before any analysis or after clear() raises
\* ValueError; a call with the same resolved file list as the analysis
\* that built the held forest, and refresh=False, returns that forest
\* without a new analysis; a call with a different file list or with
\* refresh=True analyses again and replaces the forest; the analyzer is
\* truthy exactly when it holds a forest.
Resolved(paths) ==
    [i \in 1..Len(paths) |->
        IF paths[i] \in {"a.py", "./a.py"} THEN "/cwd/a.py"
        ELSE IF paths[i] = "b.py" THEN "/cwd/b.py" ELSE "/cwd/broken.py"]

\* The resolved files a call is about: its own, or those kept.
CallFiles ==
    IF ac.last.files.paths # <<>> THEN Resolved(ac.last.files.paths)
    ELSE ac.last.before.files.paths

C21_CachedUntilFilesChange ==
    /\ analyzer_bool(ac) <=> ac.scope_forest # 0
    /\ ac.last.op = "clear" => ~analyzer_bool(ac)
    /\ ac.last.op = "call" =>
        LET before == ac.last.before
            same == CallFiles = before.files.paths
        IN  /\ (ac.last.files.paths = <<>> /\ before.files.is_none)
                    => ac.last.outcome = "ValueError"
            /\ (before.scope_forest # 0 /\ same /\ ~ac.last.refresh)
                    => /\ ac.last.outcome = "returned"
                       /\ ac.last.returned = before.scope_forest
                       /\ ac.analyses = before.analyses
                       /\ ac.scope_forest = before.scope_forest
            /\ (CallFiles # <<>> /\ (~same \/ ac.last.refresh))
                    => /\ ac.analyses = before.analyses + 1
                       /\ ac.scope_forest # before.scope_forest \/ ac.scope_forest = 0
                       /\ ac.last.outcome = "returned"
                            => ac.last.returned = ac.scope_forest /\ ac.scope_forest # 0
            /\ ac.last.outcome = "returned" => analyzer_bool(ac)

\* A call with another spelling of the analysed path returns the cached
\* forest.
C21_Witness ==
    /\ ac.last.op = "call" /\ ac.last.outcome = "returned"
    /\ ac.last.files = FileList(<<"./a.py">>)
    /\ ac.last.before.files = FileList(<<"/cwd/a.py">>)
    /\ ac.last.returned = ac.last.before.scope_forest
    /\ ac.analyses = 1

\* C22: wherever the import is placed, _determine_scope returns a flag set
\* that passes validate(): validation never fails because of the place of
\* the import, and an import in a wildcard case carries DEFAULT together
\* with CASE.  Stated for the placements no handler rejects.
InWildcardCase ==
    \E k \in 1..Len(ic.path) :
        ic.path[k].type = "match_case" /\ ic.path[k].pattern = "MatchAs(pattern=None)"

C22_PlacementNeverInvalid ==
    (ic.op = "determine_scope" /\ ic.raised_in \notin {"_handle_if_scope", "_handle_try_scope"}) =>
        /\ ic.raised_in # "validate"
        /\ ic.outcome = "returned"
        /\ InWildcardCase => {"DEFAULT", "CASE"} \subseteq ic.scope

\* C23: every Try ancestor of an import contributes exactly one of TRY,
\* EXCEPT, TRY_ELSE, FINALLY, the flag of the clause that contains the
\* import (also when the import is a direct statement of the clause), and
\* the flags of the other enclosing constructs are in the final set too.
ERROR_HANDLING == {"TRY", "EXCEPT", "TRY_ELSE", "FINALLY"}

ClauseFlag(block) ==
    CASE block = "body" -> "TRY"
      [] block = "handlers" -> "EXCEPT"
      [] block = "orelse" -> "TRY_ELSE"
      [] block = "finalbody" -> "FINALLY"

TryAncestors == {k \in 1..Len(ic.path) : ic.path[k].type = "Try"}

PlainFlags ==
    {"LOOP" : k \in {j \in 1..Len(ic.path) : ic.path[j].type \in {"For", "While"}}}
        \cup {"WITH" : k \in {j \in 1..Len(ic.path) : ic.path[j].type = "With"}}
        \cup {"CLASS" : k \in {j \in 1..Len(ic.path) : ic.path[j].type = "ClassDef"}}
        \cup {"FUNCTION" : k \in {j \in 1..Len(ic.path) : ic.path[j].type = "FunctionDef"}}

C23_TryClauseFlags ==
    (ic.op = "determine_scope" /\ TryAncestors # {}) =>
        /\ ic.outcome = "returned"
        /\ ic.scope \cap ERROR_HANDLING = {ClauseFlag(ic.path[k].block) : k \in TryAncestors}
        /\ PlainFlags \subseteq ic.scope

\* C24: when the classifier finds the import in none of the clauses of an
\* If, Try or Match ancestor, classification fails at once with an error
\* of the handler; it never returns flags for such a position.
Unrecognized(k) ==
    CASE ic.path[k].type = "If" ->
            ~has_ancestor_of_id(ic.path, k, "body") /\ ~has_ancestor_of_id(ic.path, k, "orelse")
      [] ic.path[k].type = "Try" ->
            /\ ~has_ancestor_of_id(ic.path, k, "finalbody")
            /\ ~has_ancestor_in_child(ic.path, k, "handlers")
            /\ ~has_ancestor_of_id(ic.path, k, "orelse")
            /\ ~has_ancestor_of_id(ic.path, k, "body")
      [] ic.path[k].type = "Match" -> ~has_ancestor_in_child(ic.path, k, "cases")
      [] OTHER -> FALSE

C24_UnrecognizedPositionFails ==
    (ic.op = "determine_scope" /\ \E k \in 1..Len(ic.path) : Unrecognized(k)) =>
        /\ ic.outcome = "ValueError"
        /\ ic.raised_in \in {"_handle_if_scope", "_handle_try_scope", "_handle_match_scope"}

\* C25: with max_depth = k the traversal never descends into a module at
\* depth k or more, and every module it returns is reachable from the
\* start by a path of fewer than k dependency edges; with max_depth unset
\* and scan_external on it returns exactly the start and the modules
\* reachable from it, also on graphs with cycles.
RECURSIVE WithinEdges(_, _, _)
WithinEdges(g, from, n) ==
    IF n = 0 THEN {from}
    ELSE LET near == WithinEdges(g, from, n - 1)
         IN  near \cup UNION {g.edges[m] : m \in near}

C25_DepthLimitedTraversal ==
    /\ tr.state = "traversing" =>
            (~tr.config.max_depth.is_none => Len(tr.stack) <= tr.config.max_depth.depth)
    /\ (tr.state \in {"traversing", "returned"} /\ ~tr.config.max_depth.is_none) =>
            /\ tr.config.max_depth.depth = 0 => tr.visited = {}
            /\ tr.config.max_depth.depth > 0 =>
                    tr.visited \subseteq WithinEdges(tr.graph, tr.start, tr.config.max_depth.depth - 1)
    /\ (tr.state = "returned" /\ tr.config.max_depth.is_none /\ tr.config.scan_external) =>
            tr.visited = WithinEdges(tr.graph, tr.start, MaxFqns)

\* A depth limit cut the traversal of a cycle short of a reachable module.
C25_Witness ==
    /\ tr.state = "returned"
    /\ tr.config.max_depth = MaxDepthOf(2)
    /\ Cardinality(tr.visited) = 2
    /\ Cardinality(WithinEdges(tr.graph, tr.start, MaxFqns)) = 3
    /\ \E m \in WithinEdges(tr.graph, tr.start, MaxFqns) : tr.start \in tr.graph.edges[m]

\* C26: the collector processes every scope-introducing node of the forest
\* at any nesting depth, also below statements that introduce no scope:
\* each such node has its own entry in the returned map, and the names
\* bound by the assignments of its body are recorded there.
C26_NestedScopesCollected ==
    sc.outcome = "returned" =>
        /\ \A n \in NodeIds(forest) :
                forest[n].type \in ScopeDefining => n \in DOMAIN sc.symbols_by_node
        /\ \A n \in NodeIds(forest) :
                (forest[n].type = "Assign" /\ EnclosingScope(forest, n) # 0) =>
                    /\ EnclosingScope(forest, n) \in DOMAIN sc.symbols_by_node
                    /\ \A i \in DOMAIN forest[n].targets :
                            TargetNames(forest[n].targets[i])
                                \subseteq DOMAIN sc.symbols_by_node[EnclosingScope(forest, n)]

\* C27: for every Function scope F and every name n, F.lookup(n) is never
\* a Symbol held by a Class scope on the ancestor chain of F.
C27_FunctionLookupSkipsClasses ==
    \A f \in ScopeIds : \A n \in Names :
        scopes[f].scope_type = FUNCTION_T =>
            LET symbol == lookup(f, n)
            IN  symbol # None =>
                    ~(symbol.owner \in Ancestors(f) /\ scopes[symbol.owner].scope_type = CLASS_T)

\* The files reached from the entry point through imports of internal
\* modules whose importer could be analysed.
RECURSIVE ImportedFiles(_, _)
ImportedFiles(files, reached) ==
    LET imported == {internal_origin(files, target) :
                        target \in UNION {files[k].imports :
                                            k \in {r \in reached : ~files[r].broken}}}
        more == reached \cup (imported \ {0})
    IN  IF more = reached THEN reached ELSE ImportedFiles(files, more)

ProjectAnalysed ==
    /\ \A file \in DOMAIN pa.attempts : pa.attempts[file] <= 1
    /\ pa.state = "returned" =>
            /\ pa.pending = {}
            /\ \A file \in ImportedFiles(pa.files, {1}) : pa.attempts[file] >= 1

\* The loop of analyze_project goes on running: a step of it that can be
\* taken is taken.
SpecProjectFair == SpecProject /\ WF_vars(TakePending) /\ WF_vars(AnalyzePending)

\* C29: analyze_project terminates for every finite project, projects with
\* circular imports and with modules whose analysis fails included; when
\* it returns, pending is empty and every internal module reachable from
\* the entry point through imports has been registered or attempted; no
\* module file is analysed more than once.
C29_TerminatesAnalysedOnce ==
    /\ []ProjectAnalysed
    /\ [](pa.state \in {"while", "for"} => <>(pa.state = "returned"))

\* The field of the nearest enclosing try statement that holds the node,
\* "except" for a handler, "" outside every try statement.
RECURSIVE EnclosingClause(_, _)
EnclosingClause(t, n) ==
    IF t[n].parent = 0 THEN ""
    ELSE IF t[t[n].parent].type = "Try" THEN t[n].field
    ELSE IF t[t[n].parent].type = "ExceptHandler" THEN "except"
    ELSE EnclosingClause(t, t[n].parent)

ImportNodes(t) == {n \in 1..Len(t) : t[n].type \in {"Import", "ImportFrom"}}

StatementsOfLine(n) == {i \in DOMAIN im.imports : im.imports[i].lineno = n}

\* C30: collect_imports returns one ImportStatement for every imported
\* module of every import statement of the tree, wherever it is nested,
\* the body, handlers, else and finally clauses of a try statement
\* included; an import in a try body, handler or else clause carries the
\* condition 'try', 'except' or 'else'; after a try statement the current
\* condition is the one before it, so imports before and after a try
\* statement in one block carry the same condition.
C30_ImportsCollectedWithCondition ==
    im.outcome = "returned" =>
        /\ \A n \in ImportNodes(im.tree) :
                Cardinality(StatementsOfLine(n))
                    = IF im.tree[n].type = "Import" THEN Len(im.tree[n].names) ELSE 1
        /\ \A i \in DOMAIN im.imports :
                LET clause == EnclosingClause(im.tree, im.imports[i].lineno)
                    condition == im.imports[i].condition
                IN  /\ clause = "body" => condition.branch_type = "try"
                    /\ clause = "except" => condition.branch_type = "except"
                    /\ clause = "orelse" => condition.branch_type = "else"
                    /\ clause = "" => condition = NoCondition
        /\ \A i, j \in DOMAIN im.imports :
                LET n == im.imports[i].lineno
                    m == im.imports[j].lineno
                IN  (im.tree[n].parent = im.tree[m].parent /\ im.tree[n].field = im.tree[m].field)
                        => im.imports[i].condition = im.imports[j].condition
        /\ im.current_condition = NoCondition

\* C28: every list find_cycles returns is a cycle of the graph: its first
\* and last elements are equal and every consecutive pair is an edge.
IsCycleOfGraph(cycle) ==
    /\ Len(cycle) >= 2
    /\ cycle[1] = cycle[Len(cycle)]
    /\ \A i \in 1..(Len(cycle) - 1) : cycle[i + 1] \in dg.edges[cycle[i]]

C28_ReturnedCyclesAreCycles ==
    (run.op = "find_cycles" /\ run.done) =>
        \A i \in 1..Len(run.cycles) : IsCycleOfGraph(run.cycles[i])

====
